---------------------------- MODULE Spec2Model ----------------------------
(***************************************************************************)
(* Comforters Lodge API: the content store (lessons, devotionals, hymns),  *)
(* the TSV import parser and the request handlers of lodge/api_features    *)
(* and lodge/fastapi_app.py, as a state machine.                           *)
(*                                                                         *)
(* A handler is one atomic step: it reads the store, writes it and leaves  *)
(* its outcome in resp until the response is delivered.  An outcome is the *)
(* value the Python function                                               *)
(* returns or the exception it raises (exc = class name, status = the      *)
(* status_code of an HTTPException).  upload and parse are the argument    *)
(* and the outcome of a call of the parser on its own.  txn holds the      *)
(* update and delete requests that run at the same time, whose read and    *)
(* write are separate steps.                                               *)
(*                                                                         *)
(* Text is a sequence of one-character tokens.  " ", "LF" and "TAB" are    *)
(* the whitespace characters, "BS" is a backslash.                         *)
(***************************************************************************)
EXTENDS Integers, Sequences, FiniteSets, TLC

VARIABLES posts, devotions, hymns, nextId, clock, today, resp, upload, parse,
          txn

vars ==
    <<posts, devotions, hymns, nextId, clock, today, resp, upload, parse, txn>>

(***************************************************************************)
(* Bounds of the model.                                                    *)
(***************************************************************************)
\* rows created in all, over the three tables
MaxClock == 2
\* data lines of an uploaded TSV file
MaxRows == 3
\* rows of a generated table in the listing specification
MaxTable == 31
\* pages requested from a listing
MaxPage == 3
\* requests that run at the same time
MaxProcs == 2

(***************************************************************************)
(* Python values.                                                          *)
(***************************************************************************)
None == <<"None">>

Whitespace == {" ", "LF", "TAB"}

Digits == {"0", "1", "2", "3", "4", "5", "6", "7", "8", "9"}

DigitVal(c) ==
    CASE c = "0" -> 0 [] c = "1" -> 1 [] c = "2" -> 2 [] c = "3" -> 3
      [] c = "4" -> 4 [] c = "5" -> 5 [] c = "6" -> 6 [] c = "7" -> 7
      [] c = "8" -> 8 [] c = "9" -> 9

RECURSIVE lstrip(_)
lstrip(s) ==
    IF s # <<>> /\ Head(s) \in Whitespace THEN lstrip(Tail(s)) ELSE s

RECURSIVE rstrip(_)
rstrip(s) ==
    IF s # <<>> /\ s[Len(s)] \in Whitespace
    THEN rstrip(SubSeq(s, 1, Len(s) - 1))
    ELSE s

\* str.strip()
strip(s) == rstrip(lstrip(s))

RECURSIVE DigitsToNat(_, _)
DigitsToNat(s, acc) ==
    IF s = <<>> THEN acc ELSE DigitsToNat(Tail(s), acc * 10 + DigitVal(Head(s)))

AllDigits(s) == s # <<>> /\ \A i \in 1..Len(s) : s[i] \in Digits

\* int(str): [ok, value]; not ok is ValueError
ToInt(s) ==
    LET t == strip(s) IN
    IF AllDigits(t) THEN [ok |-> TRUE, value |-> DigitsToNat(t, 0)]
    ELSE IF t # <<>> /\ Head(t) \in {"-", "+"} /\ AllDigits(Tail(t))
    THEN [ok |-> TRUE,
          value |-> IF Head(t) = "-" THEN 0 - DigitsToNat(Tail(t), 0)
                    ELSE DigitsToNat(Tail(t), 0)]
    ELSE [ok |-> FALSE, value |-> 0]

(***************************************************************************)
(* Calendar dates: the date y-m-d is the number y*10000 + m*100 + d, so    *)
(* that the order of dates is the order of the numbers.                    *)
(***************************************************************************)
MkDate(y, m, d) == y * 10000 + m * 100 + d

IsLeap(y) == (y % 4 = 0 /\ y % 100 # 0) \/ y % 400 = 0

DaysInMonth(y, m) ==
    IF m = 2 THEN (IF IsLeap(y) THEN 29 ELSE 28)
    ELSE IF m \in {4, 6, 9, 11} THEN 30 ELSE 31

\* date.fromisoformat on YYYY-MM-DD: [ok, value]; not ok is ValueError
fromisoformat(s) ==
    IF /\ Len(s) = 10
       /\ s[5] = "-" /\ s[8] = "-"
       /\ \A i \in {1, 2, 3, 4, 6, 7, 9, 10} : s[i] \in Digits
    THEN LET y == DigitsToNat(SubSeq(s, 1, 4), 0)
             m == DigitsToNat(SubSeq(s, 6, 7), 0)
             d == DigitsToNat(SubSeq(s, 9, 10), 0)
         IN IF y >= 1 /\ m \in 1..12 /\ d >= 1 /\ d <= DaysInMonth(y, m)
            THEN [ok |-> TRUE, value |-> MkDate(y, m, d)]
            ELSE [ok |-> FALSE, value |-> 0]
    ELSE [ok |-> FALSE, value |-> 0]


(***************************************************************************)
(* lodge/utils.py: the TSV import parser.                                  *)
(*                                                                         *)
(* An uploaded file is the sequence of its lines as csv.reader yields      *)
(* them: a line is the sequence of its cells and a blank line is <<>>.     *)
(* The first line is the header: its cells are column names (strings).     *)
(* The cells of the other lines are texts.  The empty sequence of lines is *)
(* the empty upload.                                                       *)
(***************************************************************************)
REQUIRED_LESSON_TSV_COLUMNS ==
    <<"series_title", "personal_question", "theme", "opening_hook",
      "biblical_qa", "reflection", "story", "prayer", "activity_guide",
      "date_posted">>

REQUIRED_DEVOTIONAL_TSV_COLUMNS == <<"citation", "verse_content", "date_posted">>

HYMN_BASE_COLUMNS ==
    <<"hymn_number", "hymn_title", "classification", "tune_ref", "cross_ref",
      "scripture", "chorus_title", "chorus">>

\* c.startswith(VERSE_PREFIX), tabulated over the column names of the model
StartsWithVersePrefix(c) == c \in {"verse_1", "verse_2", "verse_3"}

Range(s) == {s[i] : i \in 1..Len(s)}

RECURSIVE SelectSeq2(_, _)
\* [x for x in s if x in keep]
SelectSeq2(s, keep) ==
    IF s = <<>> THEN <<>>
    ELSE IF Head(s) \in keep THEN <<Head(s)>> \o SelectSeq2(Tail(s), keep)
    ELSE SelectSeq2(Tail(s), keep)

\* csv.DictReader.__next__ on one non-blank line: dict(zip(fieldnames, row)),
\* the columns past the end of the row set to None (restval), the cells past
\* the end of the header kept as a list under the key None (restkey).
DictRow(fieldnames, cells) ==
    [cols |-> [c \in Range(fieldnames) |->
                 LET at == {i \in 1..Len(fieldnames) : fieldnames[i] = c}
                     last == CHOOSE i \in at : \A j \in at : j <= i
                 IN IF last <= Len(cells) THEN cells[last] ELSE None],
     restkey |-> Len(cells) > Len(fieldnames)]

\* a row whose cells are kept as they are
_strip_row_untrimmed(row) == row

_strip_row(row) ==
    [row EXCEPT !.cols = [c \in DOMAIN row.cols |->
                            IF row.cols[c] = None THEN None
                            ELSE strip(row.cols[c])]]

\* a header check that names only the first column the header lacks
_require_header_first_only(fieldnames, required) ==
    LET missing == SelectSeq2(required,
                      {c \in Range(required) : c \notin Range(fieldnames)})
    IN IF missing = <<>> THEN <<>> ELSE <<Head(missing)>>

\* the columns of required that the header lacks, in the order of required
_require_header(fieldnames, required) ==
    SelectSeq2(required, {c \in Range(required) : c \notin Range(fieldnames)})

\* the first column of cols that the row lacks or holds empty, or "" if none
_require_non_empty(row, cols) ==
    LET bad == SelectSeq2(cols, {c \in Range(cols) :
                                   \/ c \notin DOMAIN row.cols
                                   \/ row.cols[c] = None
                                   \/ row.cols[c] = <<>>})
    IN IF bad = <<>> THEN "" ELSE Head(bad)

\* [ok, value] of row["date_posted"]; any exception becomes ValueError
_parse_date(row) ==
    IF row.cols["date_posted"] = None THEN [ok |-> FALSE, value |-> 0]
    ELSE fromisoformat(row.cols["date_posted"])

IsPrefix(p, s) == Len(p) <= Len(s) /\ SubSeq(s, 1, Len(p)) = p

RECURSIVE replace(_, _, _)
\* str.replace(old, new)
replace(s, old, new) ==
    IF s = <<>> THEN <<>>
    ELSE IF IsPrefix(old, s)
    THEN new \o replace(SubSeq(s, Len(old) + 1, Len(s)), old, new)
    ELSE <<Head(s)>> \o replace(Tail(s), old, new)

_unescape_newlines(s) ==
    replace(replace(replace(replace(s,
        <<"BS", "r", "BS", "n">>, <<"LF">>),
        <<"BS", "n">>, <<"LF">>),
        <<"BS", "r">>, <<"LF">>),
        <<"BS", "t">>, <<"TAB">>)

RECURSIVE FoldVerses(_, _)
FoldVerses(row, verse_cols) ==
    IF verse_cols = <<>> THEN <<>>
    ELSE LET raw == row.cols[Head(verse_cols)]
             val == IF raw = None THEN None ELSE strip(raw)
         IN (IF val # None /\ val # <<>> /\ val # <<"-">>
             THEN <<_unescape_newlines(val)>> ELSE <<>>)
            \o FoldVerses(row, Tail(verse_cols))

\* [exc, hymn, verses].  The key None (restkey) has no startswith and a None
\* value has no replace: both raise AttributeError.
_extract_verses(row, fieldnames) ==
    LET verse_cols == SelectSeq2(fieldnames,
                         {c \in Range(fieldnames) : StartsWithVersePrefix(c)})
        base_cols == {c \in DOMAIN row.cols : ~StartsWithVersePrefix(c)}
    IN IF row.restkey \/ \E c \in base_cols : row.cols[c] = None
       THEN [exc |-> "AttributeError", hymn |-> <<>>, verses |-> <<>>]
       ELSE [exc |-> "None",
             hymn |-> [c \in base_cols |-> _unescape_newlines(row.cols[c])],
             verses |-> FoldVerses(row, verse_cols)]

\* What parse_tsv_bytes gives: the rows it returns, or the exception it raises
\* (msg names the message; line, col and missing are what the message carries).
Parsed(rows) ==
    [exc |-> "None", msg |-> "", line |-> 0, col |-> "", missing |-> <<>>,
     rows |-> rows]

Raised(exc, msg, line, col, missing) ==
    [exc |-> exc, msg |-> msg, line |-> line, col |-> col,
     missing |-> missing, rows |-> <<>>]

RECURSIVE ParseFlatRows(_, _, _, _, _)
\* the row loop of LESSON and DEVOTIONAL: enumerate(reader, start=2), where
\* the reader skips blank lines
ParseFlatRows(fieldnames, required, lines, line_no, rows) ==
    IF lines = <<>>
    THEN IF rows = <<>>
         THEN Raised("ValueError", "no_data_rows", 0, "", <<>>)
         ELSE Parsed(rows)
    ELSE IF Head(lines) = <<>>
    THEN ParseFlatRows(fieldnames, required, Tail(lines), line_no, rows)
    ELSE LET row == _strip_row(DictRow(fieldnames, Head(lines)))
             bad == _require_non_empty(row, required)
             d == _parse_date(row)
         IN IF bad # ""
            THEN Raised("ValueError", "required", line_no, bad, <<>>)
            ELSE IF ~d.ok
            THEN Raised("ValueError", "bad_date", line_no, "date_posted", <<>>)
            ELSE ParseFlatRows(fieldnames, required, Tail(lines), line_no + 1,
                     Append(rows, [row EXCEPT !.cols["date_posted"] = d.value]))

RECURSIVE ParseHymnRows(_, _, _, _)
\* the row loop of HYMN
ParseHymnRows(fieldnames, lines, line_no, items) ==
    IF lines = <<>>
    THEN IF items = <<>>
         THEN Raised("ValueError", "no_data_rows", 0, "", <<>>)
         ELSE Parsed(items)
    ELSE IF Head(lines) = <<>>
    THEN ParseHymnRows(fieldnames, Tail(lines), line_no, items)
    ELSE LET row == _strip_row(DictRow(fieldnames, Head(lines)))
             bad == _require_non_empty(row, HYMN_BASE_COLUMNS)
             ev == _extract_verses(row, fieldnames)
         IN IF bad # ""
            THEN Raised("ValueError", "required", line_no, bad, <<>>)
            ELSE IF ev.exc # "None"
            THEN Raised(ev.exc, "", line_no, "", <<>>)
            ELSE IF ev.verses = <<>>
            THEN Raised("ValueError", "no_verse", line_no, "", <<>>)
            ELSE ParseHymnRows(fieldnames, Tail(lines), line_no + 1,
                     Append(items, [hymn |-> ev.hymn, verses |-> ev.verses]))

parse_tsv_bytes(tsv_bytes, tsv_content_type) ==
    LET fieldnames == IF tsv_bytes = <<>> THEN <<>> ELSE Head(tsv_bytes)
        lines == IF tsv_bytes = <<>> THEN <<>> ELSE Tail(tsv_bytes)
    IN IF fieldnames = <<>>
       THEN Raised("ValueError", "no_header", 0, "", <<>>)
       ELSE IF tsv_content_type = "HYMN"
       THEN IF _require_header(fieldnames, HYMN_BASE_COLUMNS) # <<>>
            THEN Raised("ValueError", "missing_columns", 0, "",
                        _require_header(fieldnames, HYMN_BASE_COLUMNS))
            ELSE IF ~\E c \in Range(fieldnames) : StartsWithVersePrefix(c)
            THEN Raised("ValueError", "no_verse_column", 0, "", <<>>)
            ELSE ParseHymnRows(fieldnames, lines, 2, <<>>)
       ELSE IF tsv_content_type \notin {"LESSON", "DEVOTIONAL"}
       THEN Raised("ValueError", "invalid_content_type", 0, "", <<>>)
       ELSE LET required == IF tsv_content_type = "LESSON"
                            THEN REQUIRED_LESSON_TSV_COLUMNS
                            ELSE REQUIRED_DEVOTIONAL_TSV_COLUMNS
            IN IF _require_header(fieldnames, required) # <<>>
               THEN Raised("ValueError", "missing_columns", 0, "",
                           _require_header(fieldnames, required))
               ELSE ParseFlatRows(fieldnames, required, lines, 2, <<>>)

(***************************************************************************)
(* lodge/models.py: the three tables.                                      *)
(*                                                                         *)
(* A table is a function from the ids of its rows to the rows.  db is a    *)
(* connection's view inside one transaction: the table, the next id of its *)
(* sequence and the clock that stamps created_at.  A create that fails     *)
(* raises the database's exception and leaves db as it was.                *)
(* The token "LONG" stands for a run of 300 letters, so that a text can    *)
(* exceed a CharField's max_length (the database rejects it: DataError).   *)
(***************************************************************************)
RECURSIVE TextLen(_)
TextLen(s) ==
    IF s = <<>> THEN 0
    ELSE (IF Head(s) = "LONG" THEN 300 ELSE 1) + TextLen(Tail(s))

LessonText ==
    <<"series_title", "personal_question", "theme", "opening_hook",
      "biblical_qa", "reflection", "story", "prayer", "activity_guide">>

DevotionText == <<"citation", "verse_content">>

HymnText ==
    <<"hymn_title", "classification", "tune_ref", "cross_ref", "scripture",
      "chorus_title", "chorus">>

\* CharField(max_length=...); 0 for a TextField
max_length(field) ==
    CASE field \in {"series_title", "opening_hook"} -> 280
      [] field = "citation" -> 200
      [] field \in {"hymn_title", "cross_ref", "scripture", "chorus_title"} -> 255
      [] field \in {"classification", "tune_ref"} -> 100
      [] OTHER -> 0

TooLong(fields, names) ==
    \E f \in Range(names) :
        max_length(f) > 0 /\ TextLen(fields[f]) > max_length(f)

NewRow(db, fields) ==
    [f \in DOMAIN fields \cup {"id", "created_at"} |->
        IF f = "id" THEN db.next
        ELSE IF f = "created_at" THEN db.clock
        ELSE fields[f]]

Inserted(db, obj) ==
    [exc |-> "None",
     db |-> [table |-> db.table @@ (obj.id :> obj),
             next |-> db.next + 1,
             clock |-> db.clock + 1],
     obj |-> obj]

Failed(db, exc) == [exc |-> exc, db |-> db, obj |-> <<>>]

\* DailyPost.objects.create(**fields)
DailyPost_create(db, fields) ==
    IF TooLong(fields, LessonText) THEN Failed(db, "DataError")
    ELSE Inserted(db, NewRow(db, fields))

\* DailyDevotion.objects.create(**fields)
DailyDevotion_create(db, fields) ==
    IF TooLong(fields, DevotionText) THEN Failed(db, "DataError")
    ELSE Inserted(db, NewRow(db, fields))

\* a table created without the constraint
unique_hymn_number_dropped(table, hymn_number) == TRUE

\* the UniqueConstraint unique_hymn_number
unique_hymn_number(table, hymn_number) ==
    \A i \in DOMAIN table : table[i].hymn_number # hymn_number

\* Hymn.objects.create(**fields): hymn_number is a PositiveIntegerField
\* (CHECK hymn_number >= 0) under the constraint unique_hymn_number
Hymn_create(db, fields) ==
    IF TooLong(fields, HymnText) THEN Failed(db, "DataError")
    ELSE IF fields.hymn_number < 0 THEN Failed(db, "IntegrityError")
    ELSE IF ~unique_hymn_number(db.table, fields.hymn_number)
    THEN Failed(db, "IntegrityError")
    ELSE Inserted(db, NewRow(db, fields))

\* a block that is not a transaction: what was inserted before the failure
\* stays
atomic_without_rollback(db, out) == out

\* with transaction.atomic(): the outcome of the block, rolled back when the
\* block raised
atomic(db, out) ==
    IF out.exc = "None" THEN out ELSE [out EXCEPT !.db = db]

(***************************************************************************)
(* What a handler gives: the value it returns or the exception it raises   *)
(* (status is the status_code of an HTTPException, otherwise 0), the       *)
(* number of rows the parser gave it, the number of objects.create calls   *)
(* it made and the database it leaves.                                     *)
(***************************************************************************)
NoDetail == [msg |-> "", line |-> 0, col |-> "", missing |-> <<>>]

Returns(db, body, attempts) ==
    [exc |-> "None", status |-> 0, detail |-> NoDetail, body |-> body,
     rows |-> 0, attempts |-> attempts, db |-> db]

Raises(db, exc, status, attempts) ==
    [exc |-> exc, status |-> status, detail |-> NoDetail, body |-> <<>>,
     rows |-> 0, attempts |-> attempts, db |-> db]

\* except ValueError as e: raise HTTPException(status_code=400, detail=str(e))
BadTsv(db, e) ==
    [exc |-> "HTTPException", status |-> 400,
     detail |-> [msg |-> e.msg, line |-> e.line, col |-> e.col,
                 missing |-> e.missing],
     body |-> <<>>, rows |-> 0, attempts |-> 0, db |-> db]

\* the outcome of a handler that got rows from the parser
Parsing(rows, out) == [out EXCEPT !.rows = Len(rows)]

\* a form field that is absent, or present and blank: v is None or
\* str(v).strip() == ""
Blank(v) == v = None \/ strip(v) = <<>>

\* the keys of required, in order, whose value is missing
MissingFields(form, required) ==
    SelectSeq2(required, {k \in Range(required) : Blank(form[k])})

\* a date form field that was not sent
NoDate == MkDate(0, 0, 0)

(***************************************************************************)
(* lodge/api_features/lessons.py                                           *)
(***************************************************************************)
post_to_out(p) == [f \in DOMAIN p \ {"created_at"} |-> p[f]]

RECURSIVE InsertPosts(_, _, _, _)
\* for r in rows: created.append(DailyPost.objects.create(...))
InsertPosts(db, rows, created, attempts) ==
    IF rows = <<>>
    THEN [exc |-> "None", db |-> db, created |-> created, attempts |-> attempts]
    ELSE LET r == Head(rows).cols
             c == DailyPost_create(db,
                    [f \in Range(LessonText) \cup {"date_posted"} |->
                        IF f = "date_posted" THEN r[f] ELSE strip(r[f])])
         IN IF c.exc # "None"
            THEN [exc |-> c.exc, db |-> c.db, created |-> created,
                  attempts |-> attempts + 1]
            ELSE InsertPosts(c.db, Tail(rows), Append(created, c.obj),
                             attempts + 1)

_bulk_insert_posts(db, rows) == atomic(db, InsertPosts(db, rows, <<>>, 0))

\* a create that passes the form's date on as it is, sent or not
_create_single_post_no_default(db, day, form) ==
    DailyPost_create(db,
        [f \in Range(LessonText) \cup {"date_posted"} |->
            IF f = "date_posted" THEN form.date_posted ELSE strip(form[f])])

_create_single_post(db, day, form) ==
    DailyPost_create(db,
        [f \in Range(LessonText) \cup {"date_posted"} |->
            IF f = "date_posted"
            THEN (IF form.date_posted # NoDate THEN form.date_posted ELSE day)
            ELSE strip(form[f])])

\* an import that writes each row as soon as it has validated it: the rows
\* before the first bad line are in the table when the error is raised
_create_post_streaming(db, day, req) ==
    LET parsed == parse_tsv_bytes(req.tsv_file, "LESSON")
        before == parse_tsv_bytes(SubSeq(req.tsv_file, 1, parsed.line - 1),
                                  "LESSON")
        done == InsertPosts(db, before.rows, <<>>, 0)
    IN IF req.has_file /\ parsed.exc = "ValueError" /\ parsed.line > 2
       THEN [BadTsv(done.db, parsed) EXCEPT !.attempts = done.attempts]
       ELSE IF req.has_file
       THEN Raises(db, "HTTPException", 400, 0)
       ELSE Raises(db, "HTTPException", 400, 0)

_create_post(db, day, req) ==
    IF req.has_file
    THEN LET parsed == parse_tsv_bytes(req.tsv_file, "LESSON")
             bulk == _bulk_insert_posts(db, parsed.rows)
         IN IF parsed.exc = "ValueError"
            THEN BadTsv(db, parsed)
            ELSE IF parsed.exc # "None"
            THEN Raises(db, parsed.exc, 0, 0)
            ELSE IF bulk.exc # "None"
            THEN Parsing(parsed.rows,
                         Raises(bulk.db, bulk.exc, 0, bulk.attempts))
            ELSE Parsing(parsed.rows,
                         Returns(bulk.db,
                                 [i \in 1..Len(bulk.created) |->
                                     post_to_out(bulk.created[i])],
                                 bulk.attempts))
    ELSE IF MissingFields(req.form, LessonText) # <<>>
    THEN Raises(db, "HTTPException", 400, 0)
    ELSE LET c == _create_single_post(db, day, req.form)
         IN IF c.exc # "None"
            THEN Raises(c.db, c.exc, 0, 1)
            ELSE Returns(c.db, <<post_to_out(c.obj)>>, 1)

\* get_object_or_404(DailyPost, id=post_id)
_get_post(db, post_id) ==
    IF post_id \notin DOMAIN db.table
    THEN Raises(db, "Http404", 0, 0)
    ELSE Returns(db, <<post_to_out(db.table[post_id])>>, 0)

Without(table, id) == [i \in DOMAIN table \ {id} |-> table[i]]

\* a delete that answers success whether or not the row exists
_delete_post_silent(db, post_id) ==
    Returns([db EXCEPT !.table = Without(db.table, post_id)],
            <<[deleted |-> TRUE, id |-> post_id]>>, 0)

_delete_post(db, post_id) ==
    IF post_id \notin DOMAIN db.table
    THEN Raises(db, "HTTPException", 404, 0)
    ELSE Returns([db EXCEPT !.table = Without(db.table, post_id)],
                 <<[deleted |-> TRUE, id |-> post_id]>>, 0)

\* p.save(): every column is NOT NULL and the CharFields are bounded.  Django
\* updates the row of the object's id and, when the table has no such row,
\* inserts the object under that id.
SaveRow(db, row, text) ==
    IF \E f \in Range(text) : row[f] = None THEN Failed(db, "IntegrityError")
    ELSE IF TooLong(row, text) THEN Failed(db, "DataError")
    ELSE [exc |-> "None",
          db |-> [db EXCEPT !.table =
                     [i \in DOMAIN db.table \cup {row.id} |->
                         IF i = row.id THEN row ELSE db.table[i]]],
          obj |-> row]

\* an update that writes the whole form: the text fields that were not sent
\* are written empty
SetAttrs_whole_form(p, update_data) ==
    [f \in DOMAIN p |->
        IF f \in DOMAIN update_data THEN update_data[f]
        ELSE IF f \in {"id", "created_at", "date_posted"} THEN p[f]
        ELSE <<>>]

\* for field, value in update_data.items(): setattr(p, field, value)
SetAttrs(p, update_data) ==
    [f \in DOMAIN p |-> IF f \in DOMAIN update_data THEN update_data[f] ELSE p[f]]

_edit_post(db, post_id, update_data) ==
    IF post_id \notin DOMAIN db.table
    THEN Raises(db, "HTTPException", 404, 0)
    ELSE LET sv == SaveRow(db, SetAttrs(db.table[post_id], update_data),
                           LessonText)
         IN IF sv.exc # "None"
            THEN Raises(sv.db, sv.exc, 0, 0)
            ELSE Returns(sv.db, <<post_to_out(sv.obj)>>, 0)

(***************************************************************************)
(* lodge/api_features/devotionals.py                                       *)
(***************************************************************************)
devotion_to_out(d) == [f \in DOMAIN d \ {"created_at"} |-> d[f]]

RECURSIVE InsertDevotions(_, _, _, _)
\* for r in rows: created.append(DailyDevotion.objects.create(...))
InsertDevotions(db, rows, created, attempts) ==
    IF rows = <<>>
    THEN [exc |-> "None", db |-> db, created |-> created, attempts |-> attempts]
    ELSE LET r == Head(rows).cols
             c == DailyDevotion_create(db,
                    [f \in Range(DevotionText) \cup {"date_posted"} |->
                        IF f = "date_posted" THEN r[f] ELSE strip(r[f])])
         IN IF c.exc # "None"
            THEN [exc |-> c.exc, db |-> c.db, created |-> created,
                  attempts |-> attempts + 1]
            ELSE InsertDevotions(c.db, Tail(rows), Append(created, c.obj),
                                 attempts + 1)

_bulk_insert_devotions(db, rows) ==
    atomic(db, InsertDevotions(db, rows, <<>>, 0))

_create_single_devotion(db, day, form) ==
    DailyDevotion_create(db,
        [f \in Range(DevotionText) \cup {"date_posted"} |->
            IF f = "date_posted"
            THEN (IF form.date_posted # NoDate THEN form.date_posted ELSE day)
            ELSE strip(form[f])])

_create_devotion(db, day, req) ==
    IF req.has_file
    THEN LET parsed == parse_tsv_bytes(req.tsv_file, "DEVOTIONAL")
             bulk == _bulk_insert_devotions(db, parsed.rows)
         IN IF req.tsv_file = <<>>
            THEN Raises(db, "HTTPException", 400, 0)
            ELSE IF parsed.exc = "ValueError"
            THEN BadTsv(db, parsed)
            ELSE IF parsed.exc # "None"
            THEN Raises(db, parsed.exc, 0, 0)
            ELSE IF bulk.exc # "None"
            THEN Parsing(parsed.rows,
                         Raises(bulk.db, bulk.exc, 0, bulk.attempts))
            ELSE Parsing(parsed.rows,
                         Returns(bulk.db,
                                 [i \in 1..Len(bulk.created) |->
                                     devotion_to_out(bulk.created[i])],
                                 bulk.attempts))
    ELSE IF MissingFields(req.form, DevotionText) # <<>>
    THEN Raises(db, "HTTPException", 400, 0)
    ELSE LET c == _create_single_devotion(db, day, req.form)
         IN IF c.exc # "None"
            THEN Raises(c.db, c.exc, 0, 1)
            ELSE Returns(c.db, <<devotion_to_out(c.obj)>>, 1)

\* get_object_or_404(DailyDevotion, id=devotion_id)
_get_devotion(db, devotion_id) ==
    IF devotion_id \notin DOMAIN db.table
    THEN Raises(db, "Http404", 0, 0)
    ELSE Returns(db, <<devotion_to_out(db.table[devotion_id])>>, 0)

\* DailyDevotion has no cover_image (models.py has the field commented out):
\* reading d.cover_image raises AttributeError before d.delete() is reached
_delete_devotion(db, devotion_id) ==
    IF devotion_id \notin DOMAIN db.table
    THEN Raises(db, "HTTPException", 404, 0)
    ELSE Raises(db, "AttributeError", 0, 0)

_edit_devotion(db, devotion_id, update_data) ==
    IF devotion_id \notin DOMAIN db.table
    THEN Raises(db, "HTTPException", 404, 0)
    ELSE LET sv == SaveRow(db, SetAttrs(db.table[devotion_id], update_data),
                           DevotionText)
         IN IF sv.exc # "None"
            THEN Raises(sv.db, sv.exc, 0, 0)
            ELSE Returns(sv.db, <<devotion_to_out(sv.obj)>>, 0)

(***************************************************************************)
(* lodge/api_features/hymns.py                                             *)
(*                                                                         *)
(* An optional form value that is not a text (hymn_number, verses) is <<>> *)
(* when it was not sent and <<v>> when it was.                             *)
(***************************************************************************)
hymn_to_out(h) == [f \in DOMAIN h \ {"created_at"} |-> h[f]]

\* [v.strip() for v in verses if v.strip()]
RECURSIVE StripVerses(_)
StripVerses(verses) ==
    IF verses = <<>> THEN <<>>
    ELSE (IF strip(Head(verses)) # <<>> THEN <<strip(Head(verses))>> ELSE <<>>)
         \o StripVerses(Tail(verses))

\* the keyword arguments of Hymn.objects.create in _bulk_create
HymnRowFields(item, number) ==
    [f \in Range(HymnText) \cup {"hymn_number", "verses"} |->
        IF f = "hymn_number" THEN number
        ELSE IF f = "verses" THEN StripVerses(item.verses)
        ELSE strip(item.hymn[f])]

RECURSIVE InsertHymns(_, _, _, _)
\* for item in items: created.append(Hymn.objects.create(...))
InsertHymns(db, items, created, attempts) ==
    IF items = <<>>
    THEN [exc |-> "None", db |-> db, created |-> created, attempts |-> attempts]
    ELSE LET n == ToInt(Head(items).hymn["hymn_number"])
             c == Hymn_create(db, HymnRowFields(Head(items), n.value))
         IN IF ~n.ok
            THEN [exc |-> "ValueError", db |-> db, created |-> created,
                  attempts |-> attempts]
            ELSE IF c.exc # "None"
            THEN [exc |-> c.exc, db |-> c.db, created |-> created,
                  attempts |-> attempts + 1]
            ELSE InsertHymns(c.db, Tail(items), Append(created, c.obj),
                             attempts + 1)

_bulk_create(db, items) == atomic(db, InsertHymns(db, items, <<>>, 0))

\* the required form fields that are missing, in the order of required
MissingHymnFields(form) ==
    (IF form.hymn_number = <<>> THEN <<"hymn_number">> ELSE <<>>)
    \o MissingFields(form, <<"hymn_title", "classification", "tune_ref">>)
    \o (IF form.verses = <<>> \/ form.verses = << <<>> >>
        THEN <<"verses">> ELSE <<>>)

_create_single(db, form) ==
    Hymn_create(db,
        [f \in Range(HymnText) \cup {"hymn_number", "verses"} |->
            IF f = "hymn_number" THEN form.hymn_number[1]
            ELSE IF f = "verses" THEN StripVerses(form.verses[1])
            ELSE IF form[f] = None THEN <<>>
            ELSE strip(form[f])])

_create_hymn(db, req) ==
    IF req.has_file
    THEN LET parsed == parse_tsv_bytes(req.tsv_file, "HYMN")
             bulk == _bulk_create(db, parsed.rows)
         IN IF req.tsv_file = <<>>
            THEN Raises(db, "HTTPException", 400, 0)
            ELSE IF parsed.exc = "ValueError"
            THEN BadTsv(db, parsed)
            ELSE IF parsed.exc # "None"
            THEN Raises(db, parsed.exc, 0, 0)
            ELSE IF bulk.exc # "None"
            THEN Parsing(parsed.rows,
                         Raises(bulk.db, bulk.exc, 0, bulk.attempts))
            ELSE Parsing(parsed.rows,
                         Returns(bulk.db,
                                 [i \in 1..Len(bulk.created) |->
                                     hymn_to_out(bulk.created[i])],
                                 bulk.attempts))
    ELSE IF MissingHymnFields(req.form) # <<>>
    THEN Raises(db, "HTTPException", 400, 0)
    ELSE LET c == _create_single(db, req.form)
         IN IF c.exc # "None"
            THEN Raises(c.db, c.exc, 0, 1)
            ELSE Returns(c.db, <<hymn_to_out(c.obj)>>, 1)

\* get_object_or_404(Hymn, pk=hymn_id)
_get_hymn(db, hymn_id) ==
    IF hymn_id \notin DOMAIN db.table
    THEN Raises(db, "Http404", 0, 0)
    ELSE Returns(db, <<hymn_to_out(db.table[hymn_id])>>, 0)

_delete_hymn(db, hymn_id) ==
    IF hymn_id \notin DOMAIN db.table
    THEN Raises(db, "Http404", 0, 0)
    ELSE Returns([db EXCEPT !.table = Without(db.table, hymn_id)],
                 <<[deleted |-> TRUE, id |-> hymn_id]>>, 0)

(***************************************************************************)
(* lodge/fastapi_app.py: the routes of the mounted application that differ *)
(* from the functions of lodge/api_features.                               *)
(***************************************************************************)
\* the bulk branch calls parse_tsv_bytes(raw) without its second argument:
\* TypeError, which the except ValueError clause does not catch
create_post(db, day, req) ==
    IF req.has_file
    THEN Raises(db, "TypeError", 0, 0)
    ELSE _create_post(db, day, req)

\* citation and verse_content are Form(...): the framework rejects a request
\* without them (422) before the function runs; there is no tsv_file parameter
create_devotion(db, day, req) ==
    IF \E f \in Range(DevotionText) : req.form[f] = None
    THEN Raises(db, "RequestValidationError", 422, 0)
    ELSE IF \E f \in Range(DevotionText) : strip(req.form[f]) = <<>>
    THEN Raises(db, "HTTPException", 400, 0)
    ELSE LET c == _create_single_devotion(db, day, req.form)
         IN IF c.exc # "None"
            THEN Raises(c.db, c.exc, 0, 1)
            ELSE Returns(c.db, <<devotion_to_out(c.obj)>>, 1)

(***************************************************************************)
(* The update routes.  They collect the form fields that were sent into    *)
(* update_data and reject a request that sent none.                        *)
(***************************************************************************)
Sent(fields) ==
    {f \in DOMAIN fields :
        IF f = "date_posted" THEN fields[f] # NoDate ELSE fields[f] # None}

\* a route that passes an empty update_data on
edit_post_unchecked(db, post_id, fields) ==
    _edit_post(db, post_id, [f \in Sent(fields) |-> fields[f]])

edit_post(db, post_id, fields) ==
    IF Sent(fields) = {}
    THEN Raises(db, "HTTPException", 400, 0)
    ELSE _edit_post(db, post_id, [f \in Sent(fields) |-> fields[f]])

edit_devotion(db, devotion_id, fields) ==
    IF Sent(fields) = {}
    THEN Raises(db, "HTTPException", 400, 0)
    ELSE _edit_devotion(db, devotion_id, [f \in Sent(fields) |-> fields[f]])

(***************************************************************************)
(* The requests of the model.                                              *)
(***************************************************************************)
Today0 == MkDate(2025, 1, 15)

Ids == 1..(MaxClock + 1)

Ta == <<"a">>

Tb == <<" ", "b", " ">>

SampleTexts == {Ta, Tb, <<" ">>, None, <<"LONG">>}

\* the text YYYY-MM-DD
IsoText(yyyy, mm, dd) == yyyy \o <<"-">> \o mm \o <<"-">> \o dd

Y2025 == <<"2", "0", "2", "5">>

SeqsUpTo(S, n) == UNION {[1..k -> S] : k \in 0..n}

\* the bodies of the sample files: valid lines and an optional last line of
\* another sort
Bodies(valid, other) ==
    {b \in {pre \o suf :
               pre \in SeqsUpTo(valid, MaxRows),
               suf \in {<<>>} \cup {<<l>> : l \in other}} :
        Len(b) <= MaxRows}

Upload(file) == [has_file |-> TRUE, tsv_file |-> file]

LessonForm(hook, date) ==
    [f \in Range(LessonText) \cup {"date_posted"} |->
        IF f = "date_posted" THEN date
        ELSE IF f = "opening_hook" THEN hook ELSE Ta]

LessonLine(hook, date) == <<Ta, Ta, Ta, hook, Ta, Ta, Ta, Ta, Ta, date>>

LessonValidLines ==
    {LessonLine(Ta, IsoText(Y2025, <<"0", "1">>, <<"1", "4">>)),
     LessonLine(Tb, IsoText(Y2025, <<"0", "1">>, <<"1", "5">>))}

LessonOtherLines ==
    {LessonLine(Ta, IsoText(Y2025, <<"0", "2">>, <<"3", "0">>)),
     LessonLine(<<"LONG">>, IsoText(Y2025, <<"0", "1">>, <<"1", "4">>)),
     <<Ta, Ta, Ta>>,
     <<>>}

LessonFiles ==
    {<<>>, <<<<"series_title", "date_posted">>, <<Ta, Ta>>>>}
    \cup {<<REQUIRED_LESSON_TSV_COLUMNS>> \o b :
             b \in Bodies(LessonValidLines, LessonOtherLines)}

\* the files that are also sent along with a filled form
LessonFilesWithForm ==
    {<<REQUIRED_LESSON_TSV_COLUMNS>> \o <<l>> :
        l \in LessonValidLines \cup
              {LessonLine(Ta, IsoText(Y2025, <<"0", "2">>, <<"3", "0">>))}}

LessonRequests ==
    {Upload(file) @@ [form |-> LessonForm(None, NoDate)] : file \in LessonFiles}
    \cup {Upload(file) @@ [form |-> LessonForm(h, NoDate)] :
             file \in LessonFilesWithForm, h \in {Ta, <<" ">>}}
    \cup {[has_file |-> FALSE, tsv_file |-> <<>>, form |-> LessonForm(h, d)] :
             h \in SampleTexts, d \in {NoDate}}
    \cup {[has_file |-> FALSE, tsv_file |-> <<>>,
           form |-> LessonForm(Ta, MkDate(2025, 1, 14))]}

\* the requests sent to the route of fastapi_app.py
LegacyLessonRequests ==
    {r \in LessonRequests : r.has_file => Len(r.tsv_file) = 2}

LessonEdits ==
    {[f \in Range(LessonText) \cup {"date_posted"} |->
        IF f = "date_posted" THEN d
        ELSE IF f = "opening_hook" THEN h ELSE None] :
        h \in {None, <<"b">>, <<"LONG">>}, d \in {NoDate, MkDate(2025, 1, 14)}}

DevotionForm(citation, date) ==
    [f \in Range(DevotionText) \cup {"date_posted"} |->
        IF f = "date_posted" THEN date
        ELSE IF f = "citation" THEN citation ELSE Ta]

DevotionLine(citation, date) == <<citation, Ta, date>>

DevotionValidLines ==
    {DevotionLine(Ta, IsoText(Y2025, <<"0", "1">>, <<"1", "4">>)),
     DevotionLine(Tb, IsoText(Y2025, <<"0", "1">>, <<"1", "5">>))}

DevotionOtherLines ==
    {DevotionLine(Ta, <<"1", "4", "/", "0", "1">>),
     DevotionLine(<<" ">>, IsoText(Y2025, <<"0", "1">>, <<"1", "4">>)),
     DevotionLine(<<"LONG">>, IsoText(Y2025, <<"0", "1">>, <<"1", "4">>)),
     <<>>}

DevotionFiles ==
    {<<>>, <<<<"citation", "date_posted">>, <<Ta, Ta>>>>}
    \cup {<<REQUIRED_DEVOTIONAL_TSV_COLUMNS>> \o b :
             b \in Bodies(DevotionValidLines, DevotionOtherLines)}

\* the files that are also sent along with a filled form
DevotionFilesWithForm ==
    {<<REQUIRED_DEVOTIONAL_TSV_COLUMNS>> \o <<l>> :
        l \in DevotionValidLines \cup {DevotionLine(Ta, <<"1", "4", "/", "0", "1">>)}}

DevotionRequests ==
    {Upload(file) @@ [form |-> DevotionForm(None, NoDate)] :
        file \in DevotionFiles}
    \cup {Upload(file) @@ [form |-> DevotionForm(c, NoDate)] :
             file \in DevotionFilesWithForm, c \in {Ta, <<" ">>}}
    \cup {[has_file |-> FALSE, tsv_file |-> <<>>, form |-> DevotionForm(c, d)] :
             c \in SampleTexts, d \in {NoDate}}
    \cup {[has_file |-> FALSE, tsv_file |-> <<>>,
           form |-> DevotionForm(Ta, MkDate(2025, 1, 14))]}

\* the requests sent to the route of fastapi_app.py, which has no tsv_file
\* parameter: a file that is sent is not read
LegacyDevotionRequests ==
    {r \in DevotionRequests :
        r.has_file => r.tsv_file \in DevotionFilesWithForm}

DevotionEdits ==
    {[f \in Range(DevotionText) \cup {"date_posted"} |->
        IF f = "date_posted" THEN d
        ELSE IF f = "citation" THEN c ELSE None] :
        c \in {None, <<"b">>, <<"LONG">>}, d \in {NoDate, MkDate(2025, 1, 14)}}

HymnForm(number, title, verses) ==
    [f \in Range(HymnText) \cup {"hymn_number", "verses"} |->
        IF f = "hymn_number" THEN number
        ELSE IF f = "verses" THEN verses
        ELSE IF f = "hymn_title" THEN title
        ELSE IF f \in {"classification", "tune_ref"} THEN Ta
        ELSE None]

HymnHeader == HYMN_BASE_COLUMNS \o <<"verse_1", "verse_2">>

HymnLine(number, v1, v2) == <<number, Ta, Ta, Ta, Ta, Ta, Ta, Ta, v1, v2>>

HymnValidLines ==
    {HymnLine(<<"1">>, Ta, <<"-">>), HymnLine(<<"2">>, Tb, <<"c">>)}

HymnOtherLines ==
    {HymnLine(<<"x">>, Ta, Ta),
     HymnLine(<<"-", "1">>, Ta, Ta),
     HymnLine(<<"3">>, <<"-">>, <<" ">>),
     HymnLine(<<"3">>, Ta, Ta) \o <<Ta>>}

HymnFiles ==
    {<<>>, <<HYMN_BASE_COLUMNS, <<<<"1">>, Ta, Ta, Ta, Ta, Ta, Ta, Ta>>>>,
     <<HymnHeader, HymnLine(<<"3">>, <<"BS", "n">>, <<"-">>)>>,
     <<HymnHeader, HymnLine(<<"1">>, Ta, <<"-">>),
                   HymnLine(<<"3">>, <<"BS", "t">>, <<" ">>)>>}
    \cup {<<HymnHeader>> \o b : b \in Bodies(HymnValidLines, HymnOtherLines)}

\* the files that are also sent along with a filled form
HymnFilesWithForm ==
    {<<HymnHeader>> \o <<l>> :
        l \in HymnValidLines \cup {HymnLine(<<"x">>, Ta, Ta)}}

HymnRequests ==
    {Upload(file) @@ [form |-> HymnForm(<<>>, None, <<>>)] : file \in HymnFiles}
    \cup {Upload(file) @@ [form |-> HymnForm(<<n>>, Ta, <<<<Tb>>>>)] :
             file \in HymnFilesWithForm, n \in {1, 2}}
    \cup {[has_file |-> FALSE, tsv_file |-> <<>>, form |-> HymnForm(n, t, v)] :
             n \in {<<>>, <<1>>, <<2>>, <<0 - 1>>},
             t \in {Ta, <<" ">>},
             v \in {<<>>, <<<<Tb, <<" ">>>>>>}}
    \cup {[has_file |-> FALSE, tsv_file |-> <<>>,
           form |-> HymnForm(<<1>>, Ta, <<<<<<" ">>>>>>)]}

(***************************************************************************)
(* The state machine: one step per request.                                *)
(***************************************************************************)
NoTable == [i \in {} |-> i]

Db(table, kind) == [table |-> table, next |-> nextId[kind], clock |-> clock]

Response(op, bulk, arg, out) ==
    [op |-> op, bulk |-> bulk, arg |-> arg, exc |-> out.exc,
     status |-> out.status, detail |-> out.detail, body |-> out.body,
     rows |-> out.rows, attempts |-> out.attempts]

\* no call of the parser on its own
NoUpload == [file |-> <<>>, kind |-> ""]

\* the parser has not run
NotParsed == Raised("", "", 0, "", <<>>)

\* no request is being answered
Idle == Response("", FALSE, 0, Returns(Db(NoTable, "LESSON"), <<>>, 0))

Init ==
    /\ posts = NoTable
    /\ devotions = NoTable
    /\ hymns = NoTable
    /\ nextId = [k \in {"LESSON", "DEVOTIONAL", "HYMN"} |-> 1]
    /\ clock = 1
    /\ today = Today0
    /\ resp = Idle
    /\ upload = NoUpload
    /\ parse = NotParsed
    /\ txn = <<>>

\* A request is taken when the last one has been answered.  The three tables
\* share nothing, and a behaviour fills one of them at a time.  The handler's
\* outcome becomes the state of the lessons table and the response.
OnPosts(op, bulk, arg, out) ==
    /\ resp.op = ""
    /\ devotions = NoTable /\ hymns = NoTable
    /\ out.db.clock <= MaxClock + 1
    /\ posts' = out.db.table
    /\ nextId' = [nextId EXCEPT !["LESSON"] = out.db.next]
    /\ clock' = out.db.clock
    /\ resp' = Response(op, bulk, arg, out)
    /\ UNCHANGED <<devotions, hymns, today, upload, parse, txn>>

OnDevotions(op, bulk, arg, out) ==
    /\ resp.op = ""
    /\ posts = NoTable /\ hymns = NoTable
    /\ out.db.clock <= MaxClock + 1
    /\ devotions' = out.db.table
    /\ nextId' = [nextId EXCEPT !["DEVOTIONAL"] = out.db.next]
    /\ clock' = out.db.clock
    /\ resp' = Response(op, bulk, arg, out)
    /\ UNCHANGED <<posts, hymns, today, upload, parse, txn>>

OnHymns(op, bulk, arg, out) ==
    /\ resp.op = ""
    /\ posts = NoTable /\ devotions = NoTable
    /\ out.db.clock <= MaxClock + 1
    /\ hymns' = out.db.table
    /\ nextId' = [nextId EXCEPT !["HYMN"] = out.db.next]
    /\ clock' = out.db.clock
    /\ resp' = Response(op, bulk, arg, out)
    /\ UNCHANGED <<posts, devotions, today, upload, parse, txn>>

CreatePost(req) ==
    OnPosts("_create_post", req.has_file, 0,
            _create_post(Db(posts, "LESSON"), today, req))

LegacyCreatePost(req) ==
    OnPosts("create_post", req.has_file, 0,
            create_post(Db(posts, "LESSON"), today, req))

GetPost(id) ==
    OnPosts("_get_post", FALSE, id, _get_post(Db(posts, "LESSON"), id))

DeletePost(id) ==
    OnPosts("_delete_post", FALSE, id, _delete_post(Db(posts, "LESSON"), id))

EditPost(id, fields) ==
    OnPosts("edit_post", FALSE, id, edit_post(Db(posts, "LESSON"), id, fields))

CreateDevotion(req) ==
    OnDevotions("_create_devotion", req.has_file, 0,
                _create_devotion(Db(devotions, "DEVOTIONAL"), today, req))

LegacyCreateDevotion(req) ==
    OnDevotions("create_devotion", req.has_file, 0,
                create_devotion(Db(devotions, "DEVOTIONAL"), today, req))

GetDevotion(id) ==
    OnDevotions("_get_devotion", FALSE, id,
                _get_devotion(Db(devotions, "DEVOTIONAL"), id))

DeleteDevotion(id) ==
    OnDevotions("_delete_devotion", FALSE, id,
                _delete_devotion(Db(devotions, "DEVOTIONAL"), id))

EditDevotion(id, fields) ==
    OnDevotions("edit_devotion", FALSE, id,
                edit_devotion(Db(devotions, "DEVOTIONAL"), id, fields))

CreateHymn(req) ==
    OnHymns("_create_hymn", req.has_file, 0,
            _create_hymn(Db(hymns, "HYMN"), req))

GetHymn(id) ==
    OnHymns("_get_hymn", FALSE, id, _get_hymn(Db(hymns, "HYMN"), id))

DeleteHymn(id) ==
    OnHymns("_delete_hymn", FALSE, id, _delete_hymn(Db(hymns, "HYMN"), id))

\* the response goes out to the client
Deliver ==
    /\ resp.op # ""
    /\ resp' = Idle
    /\ UNCHANGED <<posts, devotions, hymns, nextId, clock, today, upload, parse,
                   txn>>

Next ==
    \/ \E req \in LessonRequests : CreatePost(req)
    \/ \E req \in LegacyLessonRequests : LegacyCreatePost(req)
    \/ \E id \in Ids : GetPost(id)
    \/ \E id \in Ids : DeletePost(id)
    \/ \E id \in Ids, fields \in LessonEdits : EditPost(id, fields)
    \/ \E req \in DevotionRequests : CreateDevotion(req)
    \/ \E req \in LegacyDevotionRequests : LegacyCreateDevotion(req)
    \/ \E id \in Ids : GetDevotion(id)
    \/ \E id \in Ids : DeleteDevotion(id)
    \/ \E id \in Ids, fields \in DevotionEdits : EditDevotion(id, fields)
    \/ \E req \in HymnRequests : CreateHymn(req)
    \/ \E id \in Ids : GetHymn(id)
    \/ \E id \in Ids : DeleteHymn(id)
    \/ Deliver

Spec == Init /\ [][Next]_vars

(***************************************************************************)
(* The list functions.  A queryset is the table in the order of its sort   *)
(* key; the key of a row is a pair of integers, the smaller key first.     *)
(* order_by('-date_posted') names no second key: the order of the rows of  *)
(* one date is the database's, tie is 1 or -1 for the two orders by id.    *)
(***************************************************************************)
\* a page count that rounds down
ceil_truncating(n, d) == n \div d

\* math.ceil(n / d) for n >= 0, d > 0
ceil(n, d) == IF n % d = 0 THEN n \div d ELSE (n \div d) + 1

\* the rows of table as a sequence, by ascending key
order_by(table, key) ==
    LET ids == DOMAIN table
        Less(a, b) == \/ key[a][1] < key[b][1]
                      \/ key[a][1] = key[b][1] /\ key[a][2] < key[b][2]
        at(p) == CHOOSE i \in ids : Cardinality({j \in ids : Less(j, i)}) = p - 1
    IN [p \in 1..Cardinality(ids) |-> table[at(p)]]

\* qs[start:stop] for 0 <= start <= stop
Slice(qs, start, stop) ==
    LET last == IF stop < Len(qs) THEN stop ELSE Len(qs)
    IN IF start >= last THEN <<>> ELSE [i \in 1..(last - start) |-> qs[start + i]]

TieOrders == {1, 0 - 1}

\* Meta.ordering = ["-date_posted", "-created_at"]
MetaOrdering(table) ==
    order_by(table,
             [i \in DOMAIN table |->
                 <<0 - table[i].date_posted, 0 - table[i].created_at>>])

_list_posts(db, page, tie) ==
    LET page_size == 10
        qs == order_by(db.table,
                       [i \in DOMAIN db.table |->
                           <<0 - db.table[i].date_posted, tie * i>>])
        total_count == Len(qs)
        total_pages == IF total_count > 0 THEN ceil(total_count, page_size)
                       ELSE 0
        offset == (page - 1) * page_size
        page_items == Slice(qs, offset, offset + page_size)
    IN Returns(db,
               [posts |-> [i \in 1..Len(page_items) |-> post_to_out(page_items[i])],
                page |-> page,
                total_pages |-> total_pages],
               0)

_list_devotions(db, page, tie) ==
    LET page_size == 10
        qs == order_by(db.table,
                       [i \in DOMAIN db.table |->
                           <<0 - db.table[i].date_posted, tie * i>>])
        total_count == Len(qs)
        total_pages == IF total_count > 0 THEN ceil(total_count, page_size)
                       ELSE 0
        offset == (page - 1) * page_size
        page_items == Slice(qs, offset, offset + page_size)
    IN Returns(db,
               [devotionals |-> [i \in 1..Len(page_items) |->
                                    devotion_to_out(page_items[i])],
                page |-> page,
                total_pages |-> total_pages],
               0)

_hymns_list(db, page) ==
    LET PAGE_SIZE == 30
        offset == (page - 1) * PAGE_SIZE
        total == Cardinality(DOMAIN db.table)
        qs == order_by(db.table,
                       [i \in DOMAIN db.table |-> <<db.table[i].hymn_number, 0>>])
        page_items == Slice(qs, offset, offset + PAGE_SIZE)
    IN Returns(db,
               [hymns |-> [i \in 1..Len(page_items) |-> hymn_to_out(page_items[i])],
                page |-> page,
                totalHymns |-> total],
               0)

\* fastapi_app.py: DailyPost.objects.all() is in the order of Meta.ordering
list_posts(db, page) ==
    LET page_size == 10
        qs == MetaOrdering(db.table)
        total_count == Len(qs)
        total_pages == IF total_count > 0 THEN ceil(total_count, page_size)
                       ELSE 0
        offset == (page - 1) * page_size
        page_items == Slice(qs, offset, offset + page_size)
    IN Returns(db,
               [posts |-> [i \in 1..Len(page_items) |-> post_to_out(page_items[i])],
                page |-> page,
                total_pages |-> total_pages],
               0)

\* fastapi_app.py: takes no page and returns the whole table as a list
list_devotions(db) ==
    LET qs == MetaOrdering(db.table)
    IN Returns(db, [i \in 1..Len(qs) |-> devotion_to_out(qs[i])], 0)

\* a feed that leaves out the filter on the date
_daily_lesson_list_unfiltered(db, day, page) ==
    LET page_size == 12
        posts_qs == order_by(db.table,
                             [i \in DOMAIN db.table |->
                                 <<0 - db.table[i].date_posted, 0 - i>>])
        offset == (page - 1) * page_size
        page_items == Slice(posts_qs, offset, offset + page_size)
        later == {i \in DOMAIN db.table : db.table[i].date_posted > day}
        up_next_qs == order_by([i \in later |-> db.table[i]],
                               [i \in later |-> <<db.table[i].date_posted, i>>])
    IN Returns(db,
               [posts |-> [i \in 1..Len(page_items) |-> post_to_out(page_items[i])],
                page |-> page,
                up_next |-> IF up_next_qs = <<>> THEN None
                            ELSE post_to_out(up_next_qs[1])],
               0)

\* day is timezone.localdate()
_daily_lesson_list(db, day, page) ==
    LET page_size == 12
        upto == {i \in DOMAIN db.table : db.table[i].date_posted <= day}
        posts_qs == order_by([i \in upto |-> db.table[i]],
                             [i \in upto |->
                                 <<0 - db.table[i].date_posted, 0 - i>>])
        offset == (page - 1) * page_size
        page_items == Slice(posts_qs, offset, offset + page_size)
        later == {i \in DOMAIN db.table : db.table[i].date_posted > day}
        up_next_qs == order_by([i \in later |-> db.table[i]],
                               [i \in later |-> <<db.table[i].date_posted, i>>])
    IN Returns(db,
               [posts |-> [i \in 1..Len(page_items) |-> post_to_out(page_items[i])],
                page |-> page,
                up_next |-> IF up_next_qs = <<>> THEN None
                            ELSE post_to_out(up_next_qs[1])],
               0)

_daily_devotions(db, day, page) ==
    LET page_size == 12
        upto == {i \in DOMAIN db.table : db.table[i].date_posted <= day}
        qs == order_by([i \in upto |-> db.table[i]],
                       [i \in upto |-> <<0 - db.table[i].date_posted, 0 - i>>])
        offset == (page - 1) * page_size
        page_items == Slice(qs, offset, offset + page_size)
    IN Returns(db,
               [devotionals |-> [i \in 1..Len(page_items) |->
                                    devotion_to_out(page_items[i])],
                page |-> page],
               0)

\* fastapi_app.py: pages of 7, and no page in the response
daily_lesson_list(db, day, page) ==
    LET page_size == 7
        upto == {i \in DOMAIN db.table : db.table[i].date_posted <= day}
        posts_qs == order_by([i \in upto |-> db.table[i]],
                             [i \in upto |->
                                 <<0 - db.table[i].date_posted, 0 - i>>])
        offset == (page - 1) * page_size
        page_items == Slice(posts_qs, offset, offset + page_size)
        later == {i \in DOMAIN db.table : db.table[i].date_posted > day}
        up_next_qs == order_by([i \in later |-> db.table[i]],
                               [i \in later |-> <<db.table[i].date_posted, i>>])
    IN Returns(db,
               [posts |-> [i \in 1..Len(page_items) |-> post_to_out(page_items[i])],
                up_next |-> IF up_next_qs = <<>> THEN None
                            ELSE post_to_out(up_next_qs[1])],
               0)

(***************************************************************************)
(* The listing state machine: a table of up to MaxTable rows, made by      *)
(* single creates, is listed page by page.                                 *)
(***************************************************************************)
\* the date of the i-th sample row: dates come in no order and repeat
SampleDate(i) == MkDate(2025, 1, 1 + ((i * 5) % 28))

\* the hymn_number of the i-th sample hymn: in no order, never repeated
SampleNumber(i) == (i * 7) % 37

EmptyDb == [table |-> NoTable, next |-> 1, clock |-> 1]

\* the i-th sample row: the object a single create gives for id i
SampleRow(kind, i) ==
    LET db == [table |-> NoTable, next |-> i, clock |-> i]
    IN IF kind = "LESSON"
       THEN _create_single_post(db, Today0, LessonForm(Ta, SampleDate(i))).obj
       ELSE IF kind = "DEVOTIONAL"
       THEN _create_single_devotion(db, Today0,
                                    DevotionForm(Ta, SampleDate(i))).obj
       ELSE _create_single(db, HymnForm(<<SampleNumber(i)>>, Ta, <<<<Ta>>>>)).obj

\* the database after n single creates of the kind
Filled(kind, n) ==
    [table |-> [i \in 1..n |-> SampleRow(kind, i)], next |-> n + 1,
     clock |-> n + 1]

Pages == 1..MaxPage

\* the days on which the lists are read: before every sample date, among
\* them, after them all
Days == {MkDate(2024, 12, 31), Today0, MkDate(2025, 1, 28)}

InitList ==
    \E kind \in {"LESSON", "DEVOTIONAL", "HYMN"} :
        \E n \in 0..MaxTable :
            LET db == Filled(kind, n)
            IN /\ posts = IF kind = "LESSON" THEN db.table ELSE NoTable
               /\ devotions = IF kind = "DEVOTIONAL" THEN db.table ELSE NoTable
               /\ hymns = IF kind = "HYMN" THEN db.table ELSE NoTable
               /\ nextId = [k \in {"LESSON", "DEVOTIONAL", "HYMN"} |->
                               IF k = kind THEN db.next ELSE 1]
               /\ clock = db.clock
               /\ today \in Days
               /\ resp = Idle
               /\ upload = NoUpload
               /\ parse = NotParsed
               /\ txn = <<>>

\* a list request reads the tables and writes the response
OnList(op, arg, out) ==
    /\ resp.op = ""
    /\ resp' = Response(op, FALSE, arg, out)
    /\ UNCHANGED <<posts, devotions, hymns, nextId, clock, today, upload, parse,
                   txn>>

ListPosts(page, tie) ==
    OnList("_list_posts", page, _list_posts(Db(posts, "LESSON"), page, tie))

LegacyListPosts(page) ==
    OnList("list_posts", page, list_posts(Db(posts, "LESSON"), page))

ListDevotions(page, tie) ==
    OnList("_list_devotions", page,
           _list_devotions(Db(devotions, "DEVOTIONAL"), page, tie))

LegacyListDevotions ==
    OnList("list_devotions", 0, list_devotions(Db(devotions, "DEVOTIONAL")))

HymnsList(page) ==
    OnList("_hymns_list", page, _hymns_list(Db(hymns, "HYMN"), page))

DailyLessonList(page) ==
    OnList("_daily_lesson_list", page,
           _daily_lesson_list(Db(posts, "LESSON"), today, page))

LegacyDailyLessonList(page) ==
    OnList("daily_lesson_list", page,
           daily_lesson_list(Db(posts, "LESSON"), today, page))

DailyDevotions(page) ==
    OnList("_daily_devotions", page,
           _daily_devotions(Db(devotions, "DEVOTIONAL"), today, page))

NextList ==
    \/ \E page \in Pages, tie \in TieOrders : ListPosts(page, tie)
    \/ \E page \in Pages : LegacyListPosts(page)
    \/ \E page \in Pages, tie \in TieOrders : ListDevotions(page, tie)
    \/ LegacyListDevotions
    \/ \E page \in Pages : HymnsList(page)
    \/ \E page \in Pages : DailyLessonList(page)
    \/ \E page \in Pages : LegacyDailyLessonList(page)
    \/ \E page \in Pages : DailyDevotions(page)
    \/ Deliver

SpecList == InitList /\ [][NextList]_vars

(***************************************************************************)
(* The parser on its own: parse_tsv_bytes is applied to a file and a       *)
(* selector.  The files are a header and up to MaxRows lines.              *)
(***************************************************************************)
Jan14 == IsoText(Y2025, <<"0", "1">>, <<"1", "4">>)

Jan15 == IsoText(Y2025, <<"0", "1">>, <<"1", "5">>)

\* a text with the escapes \r\n, \n and \t, and a backslash before a letter
Escaped == <<"a", "BS", "r", "BS", "n", "b", "BS", "n", "BS", "t", "BS", "a">>

\* the uploads given to the parser.  Of each kind: every body of up to
\* MaxRows lines under the kind's own header, and the bodies of up to two
\* lines under other headers (reordered, with a column more, with a column
\* twice, with columns missing).  The lines are good ones, and lines with a
\* blank cell, a date that is no date, no verse, a cell too few, a cell too
\* many, and blank lines.  Last, files without a header and selectors that
\* name no kind.
ParseInputs ==
    LET FilesOf(header, headers, lines) ==
            {<<header>> \o b : b \in SeqsUpTo(lines, MaxRows)}
            \cup {<<h>> \o b : h \in headers, b \in SeqsUpTo(lines, 2)}
        DevotionParseLines ==
            {DevotionLine(Ta, Jan14),
             DevotionLine(Tb, <<" ">> \o Jan15),
             DevotionLine(<<" ">>, Jan14),
             DevotionLine(Ta, IsoText(Y2025, <<"0", "2">>, <<"3", "0">>)),
             <<Ta>>,
             DevotionLine(Ta, Jan14) \o <<Tb>>,
             <<>>}
        DevotionParseHeaders ==
            {<<"date_posted", "verse_content", "citation">>,
             REQUIRED_DEVOTIONAL_TSV_COLUMNS \o <<"notes">>,
             <<"citation", "citation", "verse_content", "date_posted">>,
             <<"notes", "citation">>,
             <<"notes">>}
        LessonParseLines ==
            {LessonLine(Tb, Jan15),
             LessonLine(<<>>, Jan14),
             LessonLine(Ta, <<"1", "4", "/", "0", "1">>),
             <<>>}
        LessonParseHeaders ==
            {<<"series_title", "date_posted">>,
             REQUIRED_LESSON_TSV_COLUMNS \o <<"notes">>}
        HymnParseLine(title, chorus, v1, v2) ==
            <<<<"7">>, title, Ta, Ta, Ta, Ta, Ta, chorus, v1, v2>>
        HymnParseLines ==
            {HymnParseLine(Ta, Ta, <<"x">>, <<"-">>),
             HymnParseLine(Tb, Escaped, <<" ", "-", " ">>, <<" ">> \o Escaped),
             HymnParseLine(Ta, Ta, <<"-">>, <<" ">>),
             HymnParseLine(<<" ">>, Ta, Ta, Ta),
             <<<<"7">>, Ta, Ta, Ta, Ta, Ta, Ta, Ta>>,
             HymnParseLine(Ta, Ta, <<"x">>, <<"y">>) \o <<Ta>>,
             <<>>}
        HymnParseHeaders ==
            {HYMN_BASE_COLUMNS \o <<"verse_2", "verse_1">>,
             HYMN_BASE_COLUMNS \o <<"verse_1", "verse_1">>,
             HYMN_BASE_COLUMNS \o <<"verse_1", "notes">>,
             <<"verse_1", "notes">> \o HYMN_BASE_COLUMNS,
             HYMN_BASE_COLUMNS,
             <<"hymn_number", "hymn_title", "verse_1">>,
             <<"hymn_number", "hymn_title">>}
    IN {[file |-> f, kind |-> "DEVOTIONAL"] :
           f \in FilesOf(REQUIRED_DEVOTIONAL_TSV_COLUMNS, DevotionParseHeaders,
                         DevotionParseLines)}
       \cup {[file |-> f, kind |-> "LESSON"] :
                f \in FilesOf(REQUIRED_LESSON_TSV_COLUMNS, LessonParseHeaders,
                              LessonParseLines)}
       \cup {[file |-> f, kind |-> "HYMN"] :
                f \in FilesOf(HymnHeader, HymnParseHeaders, HymnParseLines)}
       \cup {[file |-> f, kind |-> k] :
                f \in {<<>>, <<<<>>, DevotionLine(Ta, Jan14)>>,
                       <<REQUIRED_DEVOTIONAL_TSV_COLUMNS,
                         DevotionLine(Ta, Jan14)>>},
                k \in {"LESSON", "DEVOTIONAL", "HYMN", "PSALM"}}

InitParse ==
    /\ posts = NoTable
    /\ devotions = NoTable
    /\ hymns = NoTable
    /\ nextId = [k \in {"LESSON", "DEVOTIONAL", "HYMN"} |-> 1]
    /\ clock = 1
    /\ today = Today0
    /\ resp = Idle
    /\ upload \in ParseInputs
    /\ parse = NotParsed
    /\ txn = <<>>

\* parse_tsv_bytes(tsv_bytes, tsv_content_type)
ParseUpload ==
    /\ parse = NotParsed
    /\ parse' = parse_tsv_bytes(upload.file, upload.kind)
    /\ UNCHANGED <<posts, devotions, hymns, nextId, clock, today, resp, upload,
                   txn>>

SpecParse == InitParse /\ [][ParseUpload]_vars

(***************************************************************************)
(* Requests that run at the same time.  _edit_post, _edit_devotion,        *)
(* _delete_post and _delete_devotion open no transaction and take no lock: *)
(* the query that reads the record and the statement that writes it are    *)
(* two steps, and the steps of other requests may come between them.       *)
(* txn[p] is request p: its call, the place it has reached (pc), the       *)
(* object it read (obj) and its outcome (exc).                             *)
(***************************************************************************)
\* one stored record of one kind, and MaxProcs calls on it: updates of one
\* field or two, and deletes
InitRace ==
    \E kind \in {"LESSON", "DEVOTIONAL"} :
        LET db == Filled(kind, 1)
            calls ==
                IF kind = "LESSON"
                THEN {[op |-> "_edit_post", update_data |-> u] :
                         u \in {[opening_hook |-> <<"b">>],
                                [theme |-> <<"c">>],
                                [theme |-> <<"d">>,
                                 date_posted |-> MkDate(2025, 1, 14)]}}
                     \cup {[op |-> "_delete_post", update_data |-> <<>>]}
                ELSE {[op |-> "_edit_devotion", update_data |-> u] :
                         u \in {[citation |-> <<"b">>],
                                [verse_content |-> <<"c">>],
                                [verse_content |-> <<"d">>,
                                 date_posted |-> MkDate(2025, 1, 14)]}}
                     \cup {[op |-> "_delete_devotion", update_data |-> <<>>]}
        IN /\ posts = IF kind = "LESSON" THEN db.table ELSE NoTable
           /\ devotions = IF kind = "DEVOTIONAL" THEN db.table ELSE NoTable
           /\ hymns = NoTable
           /\ nextId = [k \in {"LESSON", "DEVOTIONAL", "HYMN"} |->
                           IF k = kind THEN db.next ELSE 1]
           /\ clock = db.clock
           /\ today = Today0
           /\ resp = Idle
           /\ upload = NoUpload
           /\ parse = NotParsed
           /\ txn \in [1..MaxProcs ->
                         {[op |-> c.op, id |-> 1, update_data |-> c.update_data,
                           pc |-> "start", obj |-> None, exc |-> ""] :
                             c \in calls}]

\* p = Model.objects.filter(id=...).first(); if not p: raise HTTPException(404)
Find(p) ==
    LET table == IF txn[p].op \in {"_edit_post", "_delete_post"} THEN posts
                 ELSE devotions
    IN /\ txn[p].pc = "start"
       /\ txn' = IF txn[p].id \in DOMAIN table
                 THEN [txn EXCEPT ![p].pc = "found",
                                  ![p].obj = table[txn[p].id]]
                 ELSE [txn EXCEPT ![p].pc = "done",
                                  ![p].exc = "HTTPException"]
       /\ UNCHANGED <<posts, devotions, hymns, nextId, clock, today, resp,
                      upload, parse>>

\* for field, value in update_data.items(): setattr(p, field, value)
\* p.save()
Save(p) ==
    LET lesson == txn[p].op = "_edit_post"
        sv == SaveRow(Db(IF lesson THEN posts ELSE devotions,
                         IF lesson THEN "LESSON" ELSE "DEVOTIONAL"),
                      SetAttrs(txn[p].obj, txn[p].update_data),
                      IF lesson THEN LessonText ELSE DevotionText)
    IN /\ txn[p].pc = "found"
       /\ txn[p].op \in {"_edit_post", "_edit_devotion"}
       /\ posts' = IF lesson THEN sv.db.table ELSE posts
       /\ devotions' = IF lesson THEN devotions ELSE sv.db.table
       /\ txn' = [txn EXCEPT ![p].pc = "done", ![p].exc = sv.exc]
       /\ UNCHANGED <<hymns, nextId, clock, today, resp, upload, parse>>

\* p.delete(); return {"deleted": True, "id": post_id}.  _delete_devotion
\* reads d.cover_image first, which raises AttributeError.
Delete(p) ==
    /\ txn[p].pc = "found"
    /\ txn[p].op \in {"_delete_post", "_delete_devotion"}
    /\ posts' = IF txn[p].op = "_delete_post" THEN Without(posts, txn[p].id)
                ELSE posts
    /\ txn' = [txn EXCEPT ![p].pc = "done",
                          ![p].exc = IF txn[p].op = "_delete_post" THEN "None"
                                     ELSE "AttributeError"]
    /\ UNCHANGED <<devotions, hymns, nextId, clock, today, resp, upload, parse>>

NextRace ==
    \/ \E p \in DOMAIN txn : Find(p)
    \/ \E p \in DOMAIN txn : Save(p)
    \/ \E p \in DOMAIN txn : Delete(p)

SpecRace == InitRace /\ [][NextRace]_vars

(***************************************************************************)
(* Properties.                                                             *)
(***************************************************************************)
Tables == <<posts, devotions, hymns>>

CreateOps ==
    {"_create_post", "create_post", "_create_devotion", "create_devotion",
     "_create_hymn"}

DeleteOps == {"_delete_post", "_delete_devotion", "_delete_hymn"}

\* the table an operation works on
TableOf(op) ==
    IF op \in {"_create_post", "create_post", "_get_post", "_delete_post",
               "edit_post"}
    THEN posts
    ELSE IF op \in {"_create_hymn", "_get_hymn", "_delete_hymn"}
    THEN hymns
    ELSE devotions

\* the outcome reports not-found: HTTPException(404), or Django's Http404
NotFound(r) ==
    \/ r.exc = "HTTPException" /\ r.status = 404
    \/ r.exc = "Http404"

\* new is old with exactly n rows more
Grown(old, new, n) ==
    /\ DOMAIN old \subseteq DOMAIN new
    /\ \A i \in DOMAIN old : new[i] = old[i]
    /\ Cardinality(DOMAIN new \ DOMAIN old) = n

\* a bulk create over n parsed rows leaves all n rows or none, and none when
\* it raised
AllOrNothing(old, new, n, raised) ==
    /\ new = old \/ Grown(old, new, n)
    /\ raised => new = old

\* C1: a bulk create of lessons, devotionals or hymns over N parsed rows
\* leaves the table with all N new rows or as it was; when a row's insert
\* fails, the rows inserted before it in the call are gone.
C1_BulkAllOrNothing ==
    [][(resp.op = "" /\ resp'.op \in CreateOps /\ resp'.bulk)
       => /\ AllOrNothing(posts, posts', resp'.rows, resp'.exc # "None")
             \/ resp'.op \notin {"_create_post", "create_post"}
          /\ AllOrNothing(devotions, devotions', resp'.rows,
                          resp'.exc # "None")
             \/ resp'.op # "_create_devotion"
          /\ AllOrNothing(hymns, hymns', resp'.rows, resp'.exc # "None")
             \/ resp'.op # "_create_hymn"]_vars

\* C1 witness: a hymn import failed on a duplicate hymn_number at its second
\* row or later, after the rows before it had been inserted.
C1_Witness ==
    /\ resp.op = "_create_hymn" /\ resp.bulk
    /\ resp.exc = "IntegrityError"
    /\ resp.attempts >= 2

Duplicate(req, table) ==
    /\ ~req.has_file
    /\ MissingHymnFields(req.form) = <<>>
    /\ \E i \in DOMAIN table : table[i].hymn_number = req.form.hymn_number[1]

\* C4: creating a hymn whose hymn_number is already stored fails with an
\* error that no other failure of a create gives (neither a validation error,
\* nor a failure of another cause), and leaves the stored hymns as they were.
C4_ConflictIsDistinct ==
    [][\A req \in HymnRequests :
          (Duplicate(req, hymns) /\ CreateHymn(req))
          => /\ resp'.exc # "None"
             /\ hymns' = hymns
             /\ \A other \in HymnRequests :
                   (~other.has_file /\ ~Duplicate(other, hymns))
                   => _create_hymn(Db(hymns, "HYMN"), other).exc # resp'.exc]_vars

\* the fields of an update form that carry a value
NonNull(fields) ==
    {f \in DOMAIN fields :
        IF f = "date_posted" THEN fields[f] # NoDate ELSE fields[f] # None}

\* new is old with the row id overwritten by the values of fields, field by
\* field
Overwritten(old, new, id, fields) ==
    /\ DOMAIN new = DOMAIN old
    /\ \A i \in DOMAIN old \ {id} : new[i] = old[i]
    /\ \A f \in DOMAIN old[id] :
          new[id][f] = IF f \in NonNull(fields) THEN fields[f] ELSE old[id][f]

\* C5: an update of a stored lesson or devotional that succeeds leaves every
\* field that was sent with a value equal to that value, every other field
\* of the row as it was, and every other row as it was.
C5_PartialUpdateOverwrites ==
    [][(resp.op = "" /\ resp'.op \in {"edit_post", "edit_devotion"}
        /\ resp'.exc = "None")
       => /\ \A id \in Ids, fields \in LessonEdits :
                (id \in DOMAIN posts /\ EditPost(id, fields))
                => Overwritten(posts, posts', id, fields)
          /\ \A id \in Ids, fields \in DevotionEdits :
                (id \in DOMAIN devotions /\ EditDevotion(id, fields))
                => Overwritten(devotions, devotions', id, fields)]_vars

\* C5 witness: of two stored lessons one had its opening_hook updated and
\* kept the series_title it was created with.
C5_Witness ==
    /\ resp.op = "edit_post" /\ resp.exc = "None"
    /\ Cardinality(DOMAIN posts) = 2
    /\ resp.arg \in DOMAIN posts
    /\ posts[resp.arg].opening_hook = <<"b">>
    /\ posts[resp.arg].series_title = Ta

\* C6: an update of a stored lesson or devotional that sends no field with
\* a value is answered with a client error (a 4xx HTTPException), never with
\* success, and leaves every table as it was.
C6_EmptyUpdateRejected ==
    [][(resp.op = "" /\ resp'.op \in {"edit_post", "edit_devotion"})
       => /\ \A id \in Ids, fields \in LessonEdits :
                (/\ id \in DOMAIN posts
                 /\ NonNull(fields) = {}
                 /\ EditPost(id, fields))
                => /\ resp'.exc = "HTTPException"
                   /\ resp'.status \in 400..499
                   /\ Tables' = Tables
          /\ \A id \in Ids, fields \in DevotionEdits :
                (/\ id \in DOMAIN devotions
                 /\ NonNull(fields) = {}
                 /\ EditDevotion(id, fields))
                => /\ resp'.exc = "HTTPException"
                   /\ resp'.status \in 400..499
                   /\ Tables' = Tables]_vars

\* C6 witness: an update of a stored lesson was answered with status 400.
C6_Witness ==
    /\ resp.op = "edit_post"
    /\ resp.arg \in DOMAIN posts
    /\ resp.exc = "HTTPException" /\ resp.status = 400

\* the row id is gone from new and every other row of old is as it was
Removed(old, new, id) ==
    /\ DOMAIN new = DOMAIN old \ {id}
    /\ \A i \in DOMAIN new : new[i] = old[i]

\* C7: a delete of a stored lesson, devotional or hymn answers
\* {deleted: true, id}, after it get-by-id of the identifier reports
\* not-found, the row is gone and every other row is as it was.
C7_DeleteIsHardDelete ==
    [][(resp.op = "" /\ resp'.op \in DeleteOps
        /\ resp'.arg \in DOMAIN TableOf(resp'.op))
       => /\ resp'.exc = "None"
          /\ resp'.body = <<[deleted |-> TRUE, id |-> resp'.arg]>>
          /\ Removed(posts, posts', resp'.arg)
             \/ resp'.op # "_delete_post"
          /\ Removed(devotions, devotions', resp'.arg)
             \/ resp'.op # "_delete_devotion"
          /\ Removed(hymns, hymns', resp'.arg)
             \/ resp'.op # "_delete_hymn"
          /\ NotFound(_get_post([EmptyDb EXCEPT !.table = posts'], resp'.arg))
             \/ resp'.op # "_delete_post"
          /\ NotFound(_get_devotion([EmptyDb EXCEPT !.table = devotions'],
                                    resp'.arg))
             \/ resp'.op # "_delete_devotion"
          /\ NotFound(_get_hymn([EmptyDb EXCEPT !.table = hymns'], resp'.arg))
             \/ resp'.op # "_delete_hymn"]_vars

\* C8: a delete of an identifier that is not stored, never created or
\* already deleted, reports not-found and leaves every table as it was.
C8_DeleteAbsentNotFound ==
    [][(resp.op = "" /\ resp'.op \in DeleteOps
        /\ resp'.arg \notin DOMAIN TableOf(resp'.op))
       => /\ NotFound(resp')
          /\ Tables' = Tables]_vars

\* C8 witness: a lesson that was created and then deleted is deleted again.
C8_Witness ==
    /\ resp.op = "_delete_post"
    /\ resp.arg \notin DOMAIN posts
    /\ nextId["LESSON"] > resp.arg
    /\ NotFound(resp)

\* the claimed page size of a paginated list
PageSize(op) == IF op = "_hymns_list" THEN 30 ELSE 10

\* the table a list function reads
Listed(op) ==
    IF op \in {"_list_posts", "list_posts"} THEN posts
    ELSE IF op = "_hymns_list" THEN hymns
    ELSE devotions

\* the items of a list response
Items(r) ==
    IF r.op \in {"_list_posts", "list_posts"} THEN r.body.posts
    ELSE IF r.op = "_list_devotions" THEN r.body.devotionals
    ELSE IF r.op = "_hymns_list" THEN r.body.hymns
    ELSE r.body

\* tp is the least number of pages of ps rows that hold n rows
IsCeil(tp, n, ps) ==
    /\ tp >= 0
    /\ tp * ps >= n
    /\ (tp - 1) * ps < n \/ tp = 0

\* the item is a row of the table and pos is a place of its sort value in
\* the order of field (descending or ascending)
InPosition(table, item, pos, field, descending) ==
    LET before == {i \in DOMAIN table :
                      IF descending THEN table[i][field] > item[field]
                      ELSE table[i][field] < item[field]}
        same == {i \in DOMAIN table : table[i][field] = item[field]}
    IN /\ item.id \in DOMAIN table
       /\ \A f \in DOMAIN item : item[f] = table[item.id][f]
       /\ Cardinality(before) < pos
       /\ pos <= Cardinality(before) + Cardinality(same)

\* items are the rows of the places from + 1 .. from + ps of the n rows of
\* the table in the order of field, without repetition
IsPage(table, items, from, ps, field, descending) ==
    LET n == Cardinality(DOMAIN table)
        left == IF n > from THEN n - from ELSE 0
    IN /\ Len(items) = IF left < ps THEN left ELSE ps
       /\ \A k \in 1..Len(items) :
             InPosition(table, items[k], from + k, field, descending)
       /\ \A k, l \in 1..Len(items) : k # l => items[k].id # items[l].id

PagedOps == {"_list_posts", "list_posts", "_list_devotions", "_hymns_list"}

SortField(op) == IF op = "_hymns_list" THEN "hymn_number" ELSE "date_posted"

ValidFile(file, kind, text) ==
    LET parsed == parse_tsv_bytes(file, kind)
    IN /\ parsed.exc = "None"
       /\ Len(parsed.rows) >= 1
       /\ \A k \in 1..Len(parsed.rows) :
             ~TooLong([f \in Range(text) |-> strip(parsed.rows[k].cols[f])],
                      text)

\* the response holds one record per parsed row, in the order of the rows
\* and with their values, and the table has these records and no other new
\* row
CreatedFrom(rows, text, old, new, r) ==
    /\ r.exc = "None"
    /\ Len(r.body) = Len(rows)
    /\ Grown(old, new, Len(rows))
    /\ \A k \in 1..Len(rows) :
          /\ r.body[k].id \in DOMAIN new \ DOMAIN old
          /\ \A f \in DOMAIN r.body[k] : new[r.body[k].id][f] = r.body[k][f]
          /\ r.body[k].date_posted = rows[k].cols.date_posted
          /\ \A f \in Range(text) : r.body[k][f] = strip(rows[k].cols[f])
          /\ \A l \in 1..Len(rows) : k < l => r.body[k].id < r.body[l].id

\* C10: a bulk create of lessons or devotionals whose file is a valid TSV
\* of N >= 1 data rows creates N records, one per row in the order of the
\* file with the row's parsed values, and returns them.
C10_BulkCreatesEveryRow ==
    [][(resp.op = "" /\ resp'.bulk
        /\ resp'.op \in {"_create_post", "create_post", "_create_devotion"})
       => /\ \A req \in LessonRequests :
                (/\ req.has_file
                 /\ ValidFile(req.tsv_file, "LESSON", LessonText)
                 /\ \/ CreatePost(req)
                    \/ req \in LegacyLessonRequests /\ LegacyCreatePost(req))
                => CreatedFrom(parse_tsv_bytes(req.tsv_file, "LESSON").rows,
                               LessonText, posts, posts', resp')
          /\ \A req \in DevotionRequests :
                (/\ req.has_file
                 /\ ValidFile(req.tsv_file, "DEVOTIONAL", DevotionText)
                 /\ CreateDevotion(req))
                => CreatedFrom(parse_tsv_bytes(req.tsv_file, "DEVOTIONAL").rows,
                               DevotionText, devotions, devotions', resp')]_vars

\* the state and the response a handler's outcome leaves
Left(op, out) == <<out.db.table, Response(op, TRUE, 0, out)>>

\* C11: a create request that carries a file is handled as a bulk import:
\* its outcome, the records created or the error, is that of every other
\* request with the same file, whatever its form fields are.
C11_FileTakesPrecedence ==
    [][(resp.op = "" /\ resp'.op \in CreateOps /\ resp'.bulk)
       => /\ \A req, other \in LessonRequests :
                (/\ req.has_file /\ other.has_file
                 /\ other.tsv_file = req.tsv_file
                 /\ CreatePost(req))
                => Left("_create_post",
                        _create_post(Db(posts, "LESSON"), today, other))
                   = <<posts', resp'>>
          /\ \A req, other \in LegacyLessonRequests :
                (/\ req.has_file /\ other.has_file
                 /\ other.tsv_file = req.tsv_file
                 /\ LegacyCreatePost(req))
                => Left("create_post",
                        create_post(Db(posts, "LESSON"), today, other))
                   = <<posts', resp'>>
          /\ \A req, other \in DevotionRequests :
                (/\ req.has_file /\ other.has_file
                 /\ other.tsv_file = req.tsv_file
                 /\ CreateDevotion(req))
                => Left("_create_devotion",
                        _create_devotion(Db(devotions, "DEVOTIONAL"), today,
                                         other))
                   = <<devotions', resp'>>
          /\ \A req, other \in LegacyDevotionRequests :
                (/\ req.has_file /\ other.has_file
                 /\ other.tsv_file = req.tsv_file
                 /\ LegacyCreateDevotion(req))
                => Left("create_devotion",
                        create_devotion(Db(devotions, "DEVOTIONAL"), today,
                                        other))
                   = <<devotions', resp'>>
          /\ \A req, other \in HymnRequests :
                (/\ req.has_file /\ other.has_file
                 /\ other.tsv_file = req.tsv_file
                 /\ CreateHymn(req))
                => Left("_create_hymn", _create_hymn(Db(hymns, "HYMN"), other))
                   = <<hymns', resp'>>]_vars

\* the form value is absent or holds nothing but whitespace
AbsentOrBlank(v) == v = None \/ \A i \in 1..Len(v) : v[i] \in Whitespace

\* the request was refused as the client's error and nothing was written
Rejected ==
    /\ resp'.exc \in {"HTTPException", "RequestValidationError"}
    /\ resp'.status \in 400..499
    /\ resp'.attempts = 0
    /\ Tables' = Tables

\* the hymn form lacks a required field: hymn_number or the verses absent,
\* or a required text or every entry of the verses absent or blank
HymnFormLacks(form) ==
    \/ form.hymn_number = <<>>
    \/ \E f \in {"hymn_title", "classification", "tune_ref"} :
          AbsentOrBlank(form[f])
    \/ form.verses = <<>>
    \/ \A k \in 1..Len(form.verses[1]) : AbsentOrBlank(form.verses[1][k])

\* C12: a create without a file whose form lacks a required field of its
\* kind, absent or blank after trimming alike, is refused with a client
\* error before any write; the verses of a hymn are required, and verses
\* whose entries are all blank are refused as absent verses are.
C12_RequiredFieldsChecked ==
    [][(resp.op = "" /\ resp'.op \in CreateOps /\ ~resp'.bulk)
       => /\ \A req \in LessonRequests :
                (/\ ~req.has_file
                 /\ \E f \in Range(LessonText) : AbsentOrBlank(req.form[f])
                 /\ CreatePost(req) \/ LegacyCreatePost(req))
                => Rejected
          /\ \A req \in DevotionRequests :
                (/\ ~req.has_file
                 /\ \E f \in Range(DevotionText) : AbsentOrBlank(req.form[f])
                 /\ CreateDevotion(req) \/ LegacyCreateDevotion(req))
                => Rejected
          /\ \A req \in HymnRequests :
                (/\ ~req.has_file
                 /\ HymnFormLacks(req.form)
                 /\ CreateHymn(req))
                => Rejected]_vars

\* the text without its leading and trailing whitespace
Trim(v) ==
    LET keep == {i \in 1..Len(v) : v[i] \notin Whitespace}
    IN IF keep = {} THEN <<>>
       ELSE SubSeq(v, CHOOSE i \in keep : \A j \in keep : i <= j,
                      CHOOSE i \in keep : \A j \in keep : j <= i)

\* the record a get-by-id returns for the only element of body
GetAfter(op, body) ==
    IF op \in {"_create_post", "create_post"}
    THEN _get_post([EmptyDb EXCEPT !.table = posts'], body[1].id)
    ELSE IF op = "_create_hymn"
    THEN _get_hymn([EmptyDb EXCEPT !.table = hymns'], body[1].id)
    ELSE _get_devotion([EmptyDb EXCEPT !.table = devotions'], body[1].id)

\* the record got has the date that was submitted, or the day of the create
DateRoundTrip(form, got) ==
    got.date_posted = IF form.date_posted # NoDate THEN form.date_posted
                      ELSE today

\* C13 as claimed: after a successful create of one record, get-by-id of
\* the returned identifier returns every submitted field as it was
\* submitted, and the submitted date or the day of the create.
C13_RoundTripAsSubmitted ==
    [][(resp.op = "" /\ resp'.op \in CreateOps /\ ~resp'.bulk
        /\ resp'.exc = "None")
       => LET got == GetAfter(resp'.op, resp'.body)
          IN /\ got.exc = "None"
             /\ \A req \in LessonRequests :
                   (~req.has_file /\ (CreatePost(req) \/ LegacyCreatePost(req)))
                   => /\ \A f \in Range(LessonText) :
                            got.body[1][f] = req.form[f]
                      /\ DateRoundTrip(req.form, got.body[1])
             /\ \A req \in DevotionRequests :
                   (/\ ~req.has_file
                    /\ CreateDevotion(req) \/ LegacyCreateDevotion(req))
                   => /\ \A f \in Range(DevotionText) :
                            got.body[1][f] = req.form[f]
                      /\ DateRoundTrip(req.form, got.body[1])
             /\ \A req \in HymnRequests :
                   (~req.has_file /\ CreateHymn(req))
                   => /\ \A f \in {"hymn_title", "classification", "tune_ref"} :
                            got.body[1][f] = req.form[f]
                      /\ got.body[1].hymn_number = req.form.hymn_number[1]
                      /\ got.body[1].verses = req.form.verses[1]]_vars

\* the submitted verses, trimmed, without the blank ones
TrimmedVerses(verses) ==
    LET NotBlank(v) == Trim(v) # <<>>
        kept == SelectSeq(verses, NotBlank)
    IN [k \in 1..Len(kept) |-> Trim(kept[k])]

\* C13: after a successful create of one record, get-by-id of the returned
\* identifier returns every submitted text without its leading and trailing
\* whitespace (an optional hymn text that was not sent as the empty text,
\* the verses trimmed and without the blank ones), the submitted
\* hymn_number, and the submitted date or the day of the create.
C13_RoundTripTrimmed ==
    [][(resp.op = "" /\ resp'.op \in CreateOps /\ ~resp'.bulk
        /\ resp'.exc = "None")
       => LET got == GetAfter(resp'.op, resp'.body)
          IN /\ got.exc = "None"
             /\ got.body = resp'.body
             /\ \A req \in LessonRequests :
                   (~req.has_file /\ (CreatePost(req) \/ LegacyCreatePost(req)))
                   => /\ \A f \in Range(LessonText) :
                            got.body[1][f] = Trim(req.form[f])
                      /\ DateRoundTrip(req.form, got.body[1])
             /\ \A req \in DevotionRequests :
                   (/\ ~req.has_file
                    /\ CreateDevotion(req) \/ LegacyCreateDevotion(req))
                   => /\ \A f \in Range(DevotionText) :
                            got.body[1][f] = Trim(req.form[f])
                      /\ DateRoundTrip(req.form, got.body[1])
             /\ \A req \in HymnRequests :
                   (~req.has_file /\ CreateHymn(req))
                   => /\ \A f \in Range(HymnText) :
                            got.body[1][f] = IF req.form[f] = None THEN <<>>
                                             ELSE Trim(req.form[f])
                      /\ got.body[1].hymn_number = req.form.hymn_number[1]
                      /\ got.body[1].verses
                            = TrimmedVerses(req.form.verses[1])]_vars

\* C13 witness: a lesson was created from a form whose opening_hook had
\* spaces around it and which sent no date.
C13_Witness ==
    /\ resp.op = "_create_post" /\ ~resp.bulk /\ resp.exc = "None"
    /\ resp.body[1].opening_hook = <<"b">>
    /\ resp.body[1].date_posted = today
    /\ resp.body[1].id \in DOMAIN posts

\* the data rows of a file: its lines after the header that are not blank
DataRows(file) ==
    LET NotBlankLine(l) == l # <<>>
    IN SelectSeq(Tail(file), NotBlankLine)

\* the cell of a line under the column c of the header (column names
\* distinct); None if the line ends before it
CellOf(header, line, c) ==
    LET i == CHOOSE i \in 1..Len(header) : header[i] = c
    IN IF i <= Len(line) THEN line[i] ELSE None

\* the date a cell denotes, for the cells of the uploads that are dates
DateOfCell(cell) ==
    IF Trim(cell) = Jan14 THEN MkDate(2025, 1, 14)
    ELSE IF Trim(cell) = Jan15 THEN MkDate(2025, 1, 15)
    ELSE NoDate

\* a valid LESSON or DEVOTIONAL file: the header has distinct names and
\* every required column, there is a data row, and every data row has a
\* non-blank cell under each required column and a date under date_posted
ValidFlat(file, required) ==
    /\ file # <<>>
    /\ \A i, j \in 1..Len(file[1]) : file[1][i] = file[1][j] => i = j
    /\ Range(required) \subseteq Range(file[1])
    /\ DataRows(file) # <<>>
    /\ \A k \in 1..Len(DataRows(file)) :
          /\ \A c \in Range(required) :
                /\ CellOf(file[1], DataRows(file)[k], c) # None
                /\ Trim(CellOf(file[1], DataRows(file)[k], c)) # <<>>
          /\ DateOfCell(CellOf(file[1], DataRows(file)[k], "date_posted"))
                # NoDate

\* C14: the parse of a valid LESSON or DEVOTIONAL file with N data rows
\* returns N mappings; the i-th has, under date_posted, the date of the
\* i-th data row and, under every other column of the header, the trimmed
\* text of that row's cell (None where the row has no such cell).
C14_FlatParseReturnsRows ==
    \A kind \in {"LESSON", "DEVOTIONAL"} :
       LET required == IF kind = "LESSON" THEN REQUIRED_LESSON_TSV_COLUMNS
                       ELSE REQUIRED_DEVOTIONAL_TSV_COLUMNS
           data == DataRows(upload.file)
       IN (/\ parse # NotParsed
           /\ upload.kind = kind
           /\ ValidFlat(upload.file, required))
          => /\ parse.exc = "None"
             /\ Len(parse.rows) = Len(data)
             /\ \A k \in 1..Len(data) :
                   /\ DOMAIN parse.rows[k].cols = Range(upload.file[1])
                   /\ \A c \in Range(upload.file[1]) :
                         LET cell == CellOf(upload.file[1], data[k], c)
                         IN parse.rows[k].cols[c] =
                               IF c = "date_posted" THEN DateOfCell(cell)
                               ELSE IF cell = None THEN None
                               ELSE Trim(cell)

\* C14 witness: a DEVOTIONAL file of a blank line and two data rows, the
\* second with spaces around its cells, was parsed into two mappings.
C14_Witness ==
    /\ upload.kind = "DEVOTIONAL"
    /\ ValidFlat(upload.file, REQUIRED_DEVOTIONAL_TSV_COLUMNS)
    /\ Len(upload.file) = 4
    /\ upload.file[2] = <<>>
    /\ upload.file[4] = DevotionLine(Tb, <<" ">> \o Jan15)
    /\ parse.exc = "None"
    /\ Len(parse.rows) = 2
    /\ parse.rows[2].cols["citation"] = <<"b">>
    /\ parse.rows[2].cols["date_posted"] = MkDate(2025, 1, 15)

RECURSIVE Unescaped(_)
\* the text with each escape replaced in one pass from the left: \r\n, \n
\* and \r by a line break, \t by a tab
Unescaped(t) ==
    IF t = <<>> THEN <<>>
    ELSE IF IsPrefix(<<"BS", "r", "BS", "n">>, t)
    THEN <<"LF">> \o Unescaped(SubSeq(t, 5, Len(t)))
    ELSE IF IsPrefix(<<"BS", "n">>, t) \/ IsPrefix(<<"BS", "r">>, t)
    THEN <<"LF">> \o Unescaped(SubSeq(t, 3, Len(t)))
    ELSE IF IsPrefix(<<"BS", "t">>, t)
    THEN <<"TAB">> \o Unescaped(SubSeq(t, 3, Len(t)))
    ELSE <<Head(t)>> \o Unescaped(Tail(t))

\* the verses of a line: its cells under the verse_ columns of the header,
\* from the left, that are neither blank nor the placeholder, unescaped
VersesOfLine(header, line) ==
    LET Kept(i) == /\ StartsWithVersePrefix(header[i])
                   /\ i <= Len(line)
                   /\ Trim(line[i]) \notin {<<>>, <<"-">>}
        at == SelectSeq([i \in 1..Len(header) |-> i], Kept)
    IN [k \in 1..Len(at) |-> Unescaped(Trim(line[at[k]]))]

\* C15: every accepted row of a HYMN file is returned with the verses of
\* its line (the cells under the verse_ columns, in the order of the header,
\* without the blank ones and the placeholders, unescaped) and with every
\* other column's cell trimmed and unescaped.
C15_VersesFolded ==
    (upload.kind = "HYMN" /\ parse # NotParsed /\ parse.exc = "None")
    => LET header == upload.file[1]
           data == DataRows(upload.file)
       IN /\ Len(parse.rows) = Len(data)
          /\ \A k \in 1..Len(data) :
                /\ parse.rows[k].verses = VersesOfLine(header, data[k])
                /\ \A c \in {x \in Range(header) : ~StartsWithVersePrefix(x)} :
                      parse.rows[k].hymn[c]
                         = Unescaped(Trim(CellOf(header, data[k], c)))

\* the required columns of a kind
RequiredOf(kind) ==
    IF kind = "LESSON" THEN REQUIRED_LESSON_TSV_COLUMNS
    ELSE IF kind = "DEVOTIONAL" THEN REQUIRED_DEVOTIONAL_TSV_COLUMNS
    ELSE HYMN_BASE_COLUMNS

\* C16: when the header lacks required columns of the kind, the parse fails
\* with one ValueError that lists each of them, and the lines after the
\* header have no part in the result; a HYMN header with every base column
\* and no verse_ column fails with another ValueError, again whatever the
\* lines are.
C16_HeaderValidation ==
    (/\ parse # NotParsed
     /\ upload.kind \in {"LESSON", "DEVOTIONAL", "HYMN"}
     /\ upload.file # <<>>
     /\ upload.file[1] # <<>>)
    => LET header == upload.file[1]
           lacking == Range(RequiredOf(upload.kind)) \ Range(header)
       IN /\ lacking # {}
             => /\ parse.exc = "ValueError"
                /\ parse.msg = "missing_columns"
                /\ Range(parse.missing) = lacking
                /\ Len(parse.missing) = Cardinality(lacking)
                /\ parse.line = 0
                /\ parse = parse_tsv_bytes(<<header>>, upload.kind)
          /\ (/\ upload.kind = "HYMN"
              /\ lacking = {}
              /\ \A i \in 1..Len(header) : ~StartsWithVersePrefix(header[i]))
             => /\ parse.exc = "ValueError"
                /\ parse.msg = "no_verse_column"
                /\ parse.msg # "missing_columns"
                /\ parse.line = 0
                /\ parse = parse_tsv_bytes(<<header>>, upload.kind)

\* C16 witness: a DEVOTIONAL file whose header lacks two required columns
\* and whose first line has a blank cell was refused for both columns.
C16_Witness ==
    /\ upload.kind = "DEVOTIONAL"
    /\ Len(upload.file) = 3
    /\ upload.file[1] = <<"notes", "citation">>
    /\ upload.file[2] = DevotionLine(<<" ">>, Jan14)
    /\ parse.exc = "ValueError"
    /\ parse.missing = <<"verse_content", "date_posted">>

\* the parse of the header of the upload and its line L alone
AloneAt(L) == parse_tsv_bytes(<<upload.file[1], upload.file[L]>>, upload.kind)

\* C17: an error about a row (empty required field, bad date, no verse)
\* carries the number L of a line of the input text, the header being line
\* 1, such that line L is the offending one (alone under the header it is
\* refused for the same reason) and no line before it offends.
C17_ErrorLineNumber ==
    (parse # NotParsed /\ parse.msg \in {"required", "bad_date", "no_verse"})
    => /\ parse.line \in 2..Len(upload.file)
       /\ upload.file[parse.line] # <<>>
       /\ AloneAt(parse.line).msg = parse.msg
       /\ AloneAt(parse.line).col = parse.col
       /\ \A j \in 2..(parse.line - 1) :
             upload.file[j] = <<>> \/ AloneAt(j).exc = "None"

\* C18: whatever the upload and the selector, parse_tsv_bytes returns rows
\* or raises ValueError, and nothing else.
C18_ParserTotal ==
    parse # NotParsed => parse.exc \in {"None", "ValueError"}

\* C19: in every list of lessons or devotionals, of two listed records the
\* one listed first has the later date_posted, or the same date_posted and
\* a created_at that is not earlier.
C19_ListOrder ==
    (/\ resp.op \in {"_list_posts", "list_posts", "_list_devotions",
                     "list_devotions"}
     /\ resp.exc = "None")
    => LET items == Items(resp)
           table == Listed(resp.op)
       IN \A k, l \in 1..Len(items) :
             k < l
             => LET a == table[items[k].id]
                    b == table[items[l].id]
                IN \/ a.date_posted > b.date_posted
                   \/ /\ a.date_posted = b.date_posted
                      /\ a.created_at >= b.created_at

FeedOps == {"_daily_lesson_list", "daily_lesson_list", "_daily_devotions"}

\* the table a feed reads, and the size of its pages
FeedTable(op) == IF op = "_daily_devotions" THEN devotions ELSE posts

FeedPageSize(op) == IF op = "daily_lesson_list" THEN 7 ELSE 12

FeedItems(r) ==
    IF r.op = "_daily_devotions" THEN r.body.devotionals ELSE r.body.posts

\* the items of the feed are page resp.arg of the stored records dated today
\* or earlier, newest first, and none is dated after today
FeedItemsUpToToday ==
    LET table == FeedTable(resp.op)
        upto == {i \in DOMAIN table : table[i].date_posted <= today}
        items == FeedItems(resp)
        ps == FeedPageSize(resp.op)
    IN /\ resp.exc = "None"
       /\ IsPage([i \in upto |-> table[i]], items, (resp.arg - 1) * ps, ps,
                 "date_posted", TRUE)
       /\ \A k \in 1..Len(items) : items[k].date_posted <= today
       /\ \A k, l \in 1..Len(items) :
             k < l => items[k].date_posted >= items[l].date_posted

\* up_next is a stored record of the least date after today, or None when
\* no record is dated after today
UpNextIsNearest ==
    LET table == FeedTable(resp.op)
        later == {i \in DOMAIN table : table[i].date_posted > today}
    IN /\ "up_next" \in DOMAIN resp.body
       /\ IF later = {} THEN resp.body.up_next = None
          ELSE /\ resp.body.up_next # None
               /\ resp.body.up_next.id \in later
               /\ \A f \in DOMAIN resp.body.up_next :
                     resp.body.up_next[f] = table[resp.body.up_next.id][f]
               /\ \A i \in later :
                     resp.body.up_next.date_posted <= table[i].date_posted

C21_BulkHymnHasVerse ==
    [][(resp.op = "" /\ resp'.op = "_create_hymn" /\ resp'.bulk
        /\ resp'.exc = "None")
       => \A id \in DOMAIN hymns' \ DOMAIN hymns :
             hymns'[id].verses # <<>>]_vars

\* C22: when two updates of one record that set disjoint fields have both
\* succeeded, however their steps were interleaved, the record carries the
\* values of both.
C22_NoLostUpdate ==
    \A p, q \in DOMAIN txn :
       (/\ p # q
        /\ txn[p].op \in {"_edit_post", "_edit_devotion"}
        /\ txn[q].op = txn[p].op
        /\ txn[q].id = txn[p].id
        /\ DOMAIN txn[p].update_data \cap DOMAIN txn[q].update_data = {}
        /\ txn[p].pc = "done" /\ txn[p].exc = "None"
        /\ txn[q].pc = "done" /\ txn[q].exc = "None")
       => LET table == IF txn[p].op = "_edit_post" THEN posts ELSE devotions
          IN /\ txn[p].id \in DOMAIN table
             /\ \A f \in DOMAIN txn[p].update_data :
                   table[txn[p].id][f] = txn[p].update_data[f]
             /\ \A f \in DOMAIN txn[q].update_data :
                   table[txn[q].id][f] = txn[q].update_data[f]

\* C23: once a delete of a lesson or devotional has reported success, the
\* table has no record of that id, whatever a concurrent update that read
\* the record before the delete does afterwards.
C23_DeletedStaysDeleted ==
    \A p \in DOMAIN txn :
       (/\ txn[p].op \in {"_delete_post", "_delete_devotion"}
        /\ txn[p].pc = "done"
        /\ txn[p].exc = "None")
       => txn[p].id \notin DOMAIN (IF txn[p].op = "_delete_post" THEN posts
                                   ELSE devotions)

=============================================================================
